---- MODULE Spec2Model ----
(***************************************************************************)
(* Kinescope downloader: the ClearKey key-acquisition pipeline             *)
(* (drm/key_fetcher.py), the download orchestration (core/downloader.py)   *)
(* and the window that drives both (gui/main_window.py).                   *)
(*                                                                         *)
(* Text is modelled by TLA+ strings; a character is a string of length 1.  *)
(* Bytes are integers 0..255, byte strings are sequences of them.          *)
(***************************************************************************)
EXTENDS Integers, Sequences, FiniteSets, TLC

(***************************************************************************)
(* Bounds of the model.                                                    *)
(***************************************************************************)
\* longest key list handed to VideoDownloader.download_video directly
MaxKeys == 2
\* longest "keys" array of a license response
MaxEntries == 2
\* number of downloads the window starts in one run
MaxDownloads == 1
\* number of lines a pipe between the child process and run_command holds
\* before a write to it blocks
PipeCap == 2

None == "<None>"

(***************************************************************************)
(* Text helpers (Python str operations).                                   *)
(***************************************************************************)
Char(s, i) == SubSeq(s, i, i)

IndexIn(c, alphabet) ==
    IF \E i \in 1..Len(alphabet) : Char(alphabet, i) = c
    THEN CHOOSE i \in 1..Len(alphabet) : Char(alphabet, i) = c
    ELSE 0

RECURSIVE Repeat(_, _)
Repeat(c, n) == IF n <= 0 THEN "" ELSE c \o Repeat(c, n - 1)

\* str.rstrip('=')
RECURSIVE RStripPad(_)
RStripPad(s) ==
    IF Len(s) > 0 /\ Char(s, Len(s)) = "="
    THEN RStripPad(SubSeq(s, 1, Len(s) - 1))
    ELSE s

\* str.strip() over the whitespace the manifests of the model contain
RECURSIVE LStripWs(_)
LStripWs(s) ==
    IF Len(s) > 0 /\ Char(s, 1) = " "
    THEN LStripWs(SubSeq(s, 2, Len(s)))
    ELSE s

RECURSIVE RStripWs(_)
RStripWs(s) ==
    IF Len(s) > 0 /\ Char(s, Len(s)) = " "
    THEN RStripWs(SubSeq(s, 1, Len(s) - 1))
    ELSE s

Strip(s) == LStripWs(RStripWs(s))

\* Python truthiness of an Optional[str]
Truthy(s) == s # None /\ s # ""

(***************************************************************************)
(* base64 and hex (Python base64 / binascii / bytes.hex).                  *)
(***************************************************************************)
B64Std == "ABCDEFGHIJKLMNOPQRSTUVWXYZabcdefghijklmnopqrstuvwxyz0123456789+/"
B64Url == "ABCDEFGHIJKLMNOPQRSTUVWXYZabcdefghijklmnopqrstuvwxyz0123456789-_"
HexLower == "0123456789abcdef"
HexAny == "0123456789abcdefABCDEF"

\* binascii.a2b_base64 in its default (non-strict) mode: characters outside
\* the alphabet are skipped, a pad that completes a quad ends the parse, and
\* data that ends inside a quad is an error ("Incorrect padding").
RECURSIVE A2bLoop(_, _, _, _, _, _)
A2bLoop(s, i, quad_pos, leftchar, pads, out) ==
    IF i > Len(s)
    THEN [ok |-> quad_pos = 0, bytes |-> IF quad_pos = 0 THEN out ELSE << >>]
    ELSE LET c == Char(s, i)
             v == IndexIn(c, B64Std) - 1
         IN  IF c = "="
             THEN IF quad_pos >= 2 /\ quad_pos + pads + 1 >= 4
                  THEN [ok |-> TRUE, bytes |-> out]
                  ELSE A2bLoop(s, i + 1, quad_pos, leftchar,
                               IF quad_pos >= 2 THEN pads + 1 ELSE pads, out)
             ELSE IF v < 0
             THEN A2bLoop(s, i + 1, quad_pos, leftchar, pads, out)
             ELSE CASE quad_pos = 0 ->
                          A2bLoop(s, i + 1, 1, v, 0, out)
                    [] quad_pos = 1 ->
                          A2bLoop(s, i + 1, 2, v % 16, 0,
                                  Append(out, (leftchar * 4 + v \div 16) % 256))
                    [] quad_pos = 2 ->
                          A2bLoop(s, i + 1, 3, v % 4, 0,
                                  Append(out, (leftchar * 16 + v \div 4) % 256))
                    [] quad_pos = 3 ->
                          A2bLoop(s, i + 1, 0, 0, 0,
                                  Append(out, (leftchar * 64 + v) % 256))

\* base64.b64decode(s): [ok |-> FALSE] stands for binascii.Error
b64decode(s) == A2bLoop(s, 1, 0, 0, 0, << >>)

\* base64 encoding of a byte string over an alphabet, '=' padded
RECURSIVE B64EncodeWith(_, _)
B64EncodeWith(bytes, alphabet) ==
    LET n == Len(bytes)
        ch(v) == Char(alphabet, v + 1)
    IN  IF n = 0 THEN ""
        ELSE IF n = 1
        THEN ch(bytes[1] \div 4) \o ch((bytes[1] % 4) * 16) \o "=="
        ELSE IF n = 2
        THEN ch(bytes[1] \div 4)
             \o ch((bytes[1] % 4) * 16 + bytes[2] \div 16)
             \o ch((bytes[2] % 16) * 4) \o "="
        ELSE ch(bytes[1] \div 4)
             \o ch((bytes[1] % 4) * 16 + bytes[2] \div 16)
             \o ch((bytes[2] % 16) * 4 + bytes[3] \div 64)
             \o ch(bytes[3] % 64)
             \o B64EncodeWith(SubSeq(bytes, 4, n), alphabet)

urlsafe_b64encode(bytes) == B64EncodeWith(bytes, B64Url)

\* bytes.hex(): two lowercase hex digits per byte
RECURSIVE hex(_)
hex(bytes) ==
    IF Len(bytes) = 0 THEN ""
    ELSE Char(HexLower, (bytes[1] \div 16) + 1)
         \o Char(HexLower, (bytes[1] % 16) + 1)
         \o hex(Tail(bytes))

(***************************************************************************)
(* More text helpers: searching, splitting and regular-expression scans.   *)
(***************************************************************************)
\* str.find, 1-based; 0 when sub does not occur in s
Find(s, sub) ==
    LET starts == {i \in 1..(Len(s) - Len(sub) + 1) :
                      SubSeq(s, i, i + Len(sub) - 1) = sub}
    IN  IF starts = {} THEN 0
        ELSE CHOOSE i \in starts : \A j \in starts : i <= j

Contains(s, sub) == Find(s, sub) > 0

\* s.split(sep): the pieces of s between the occurrences of sep
RECURSIVE Split(_, _)
Split(s, sep) ==
    LET i == Find(s, sep)
    IN  IF i = 0 THEN <<s>>
        ELSE <<SubSeq(s, 1, i - 1)>>
             \o Split(SubSeq(s, i + Len(sep), Len(s)), sep)

Min(a, b) == IF a <= b THEN a ELSE b

\* for the positions from..to of s: whether each holds a character of class
RECURSIVE ClassMask(_, _, _, _)
ClassMask(s, class, from, to) ==
    IF from > to THEN << >>
    ELSE IF from = to THEN <<IndexIn(Char(s, from), class) > 0>>
    ELSE LET mid == (from + to) \div 2
         IN  ClassMask(s, class, from, mid) \o ClassMask(s, class, mid + 1, to)

\* the matches of [class]{lo,hi} inside one maximal run of class characters,
\* which starts at a and is len long: greedy, one after the other
RECURSIVE RunMatches(_, _, _, _, _)
RunMatches(s, a, len, lo, hi) ==
    IF len < lo THEN << >>
    ELSE LET n == Min(len, hi)
         IN  <<SubSeq(s, a, a + n - 1)>> \o RunMatches(s, a + n, len - n, lo, hi)

\* the matches in the runs that start at the positions of starts, in order;
\* ends holds the last position of every run
RECURSIVE MatchesOfRuns(_, _, _, _, _)
MatchesOfRuns(s, starts, ends, lo, hi) ==
    IF starts = {} THEN << >>
    ELSE LET a == CHOOSE m \in starts : \A o \in starts : m <= o
             e == CHOOSE m \in ends : m >= a /\ \A o \in ends : o >= a => m <= o
         IN  RunMatches(s, a, e - a + 1, lo, hi)
             \o MatchesOfRuns(s, starts \ {a}, ends, lo, hi)

\* re.findall(r'[class]{lo,hi}', s): leftmost, greedy, non-overlapping
FindAll(s, class, lo, hi) ==
    LET n == Len(s)
        mask == ClassMask(s, class, 1, n)
        starts == {k \in 1..n : mask[k] /\ (k = 1 \/ ~mask[k - 1])}
        ends == {k \in 1..n : mask[k] /\ (k = n \/ ~mask[k + 1])}
        long == {a \in starts : \A k \in a..(a + lo - 1) : k <= n /\ mask[k]}
    IN  MatchesOfRuns(s, long, ends, lo, hi)

\* code point of a character: printable ASCII by table (the grave accent,
\* which a TLA+ string cannot hold, is left out); any character the tables
\* do not hold stands for one outside Latin-1
AsciiLow == " !\"#$%&'()*+,-./0123456789:;<=>?@ABCDEFGHIJKLMNOPQRSTUVWXYZ[\\]^_"
AsciiHigh == "abcdefghijklmnopqrstuvwxyz{|}~"
Ord(c) ==
    IF IndexIn(c, AsciiLow) > 0 THEN IndexIn(c, AsciiLow) + 31
    ELSE IF IndexIn(c, AsciiHigh) > 0 THEN IndexIn(c, AsciiHigh) + 96
    ELSE 8364

\* str.encode('latin-1'): [ok |-> FALSE] stands for UnicodeEncodeError
encode_latin1(s) ==
    [ok    |-> \A i \in 1..Len(s) : Ord(Char(s, i)) < 256,
     bytes |-> [i \in 1..Len(s) |-> Ord(Char(s, i)) % 256]]

(***************************************************************************)
(* JSON documents (the result of json.loads) and their text.               *)
(***************************************************************************)
JStr(s) == [t |-> "str", s |-> s]
JNum == [t |-> "num"]
JNull == [t |-> "null"]
JList(items) == [t |-> "list", items |-> items]
\* fields: a sequence of <<name, value>> pairs
JObj(fields) == [t |-> "obj", fields |-> fields]

HasField(v, name) ==
    v.t = "obj" /\ \E i \in 1..Len(v.fields) : v.fields[i][1] = name

Field(v, name) ==
    LET i == CHOOSE j \in 1..Len(v.fields) :
                 /\ v.fields[j][1] = name
                 /\ \A m \in (j + 1)..Len(v.fields) : v.fields[m][1] # name
    IN  v.fields[i][2]

\* dict.get(name, {}) on a value known to be an object
GetOr(v, name) == IF HasField(v, name) THEN Field(v, name) ELSE JObj(<< >>)

\* Python "name in v": "yes", "no" or "TypeError"
PyContains(name, v) ==
    CASE v.t = "obj"  -> IF HasField(v, name) THEN "yes" ELSE "no"
      [] v.t = "list" -> IF \E i \in 1..Len(v.items) :
                               v.items[i].t = "str" /\ v.items[i].s = name
                         THEN "yes" ELSE "no"
      [] v.t = "str"  -> IF Contains(v.s, name) THEN "yes" ELSE "no"
      [] OTHER        -> "TypeError"

\* the compact JSON text of a value (the body as the server sends it)
RECURSIVE Serialize(_)
RECURSIVE SerializeItems(_, _)
RECURSIVE SerializeFields(_, _)
Serialize(v) ==
    CASE v.t = "str"  -> "\"" \o v.s \o "\""
      [] v.t = "num"  -> "1"
      [] v.t = "null" -> "null"
      [] v.t = "list" -> "[" \o SerializeItems(v.items, 1) \o "]"
      [] v.t = "obj"  -> "{" \o SerializeFields(v.fields, 1) \o "}"
SerializeItems(items, i) ==
    IF i > Len(items) THEN ""
    ELSE Serialize(items[i])
         \o (IF i < Len(items) THEN "," ELSE "")
         \o SerializeItems(items, i + 1)
SerializeFields(fields, i) ==
    IF i > Len(fields) THEN ""
    ELSE "\"" \o fields[i][1] \o "\":" \o Serialize(fields[i][2])
         \o (IF i < Len(fields) THEN "," ELSE "")
         \o SerializeFields(fields, i + 1)

\* A response body: plain text (json.loads raises JSONDecodeError on it) or
\* a JSON document, whose text is its serialization.
TextBody(s) == [kind |-> "text", text |-> s]
JsonBody(v) == [kind |-> "json", value |-> v, text |-> Serialize(v)]


(***************************************************************************)
(* drm/key_fetcher.py: KeyFetcher                                          *)
(***************************************************************************)
ClearKeyScheme == "urn:uuid:e2719d58-a985-b3c9-781a-b030af78d30e"
TagContentProtection == "{urn:mpeg:dash:schema:mpd:2011}ContentProtection"
TagDefaultKid == "{urn:mpeg:cenc:2013}default_KID"

\* An element of a manifest: tag, schemeIdUri attribute ("" when absent),
\* text (None when the element has none), default_KID attribute (None when
\* absent) and child elements.  A manifest is [wellformed, root].
Elem(tag, scheme, text, attr, children) ==
    [tag |-> tag, schemeIdUri |-> scheme, text |-> text,
     default_KID |-> attr, children |-> children]

\* the descendants of an element in document order (two levels deep)
RECURSIVE DescendantsFrom(_, _)
DescendantsFrom(children, i) ==
    IF i > Len(children) THEN << >>
    ELSE <<children[i]>> \o children[i].children
         \o DescendantsFrom(children, i + 1)

Descendants(root) == DescendantsFrom(root.children, 1)

\* the first index at which a sequence of truth values holds TRUE, 0 when
\* there is none: the element at which a loop returns
FirstIndex(hits) ==
    IF \E i \in 1..Len(hits) : hits[i]
    THEN CHOOSE i \in 1..Len(hits) :
             hits[i] /\ \A j \in 1..(i - 1) : ~hits[j]
    ELSE 0

\* cp.find('{urn:mpeg:cenc:2013}default_KID'): first such child, or None
FindKidChild(cp) ==
    LET IsKid(e) == e.tag = TagDefaultKid
        i == FirstIndex([n \in 1..Len(cp.children) |-> IsKid(cp.children[n])])
    IN  IF i = 0 THEN None ELSE cp.children[i].text

\* a faulty variant of the resolver: any default_KID element is looked for
\* before the ClearKey-scoped one
ExtractKidLooseFirst(mpd) ==
    IF ~mpd.wellformed THEN None
    ELSE LET desc == Descendants(mpd.root)
             ClearKeyHit(e) == /\ e.tag = TagContentProtection
                               /\ e.schemeIdUri = ClearKeyScheme
                               /\ Truthy(FindKidChild(e))
             AnyKidHit(e) == e.tag = TagDefaultKid /\ Truthy(e.text)
             AttrHit(e) == e.default_KID # None
             all == <<mpd.root>> \o desc
             i1 == FirstIndex([n \in 1..Len(desc) |-> ClearKeyHit(desc[n])])
             i2 == FirstIndex([n \in 1..Len(desc) |-> AnyKidHit(desc[n])])
             i3 == FirstIndex([n \in 1..Len(all) |-> AttrHit(all[n])])
         IN  IF i2 > 0 THEN Strip(desc[i2].text)
             ELSE IF i1 > 0 THEN Strip(FindKidChild(desc[i1]))
             ELSE IF i3 > 0 THEN all[i3].default_KID
             ELSE None

\* KeyFetcher.extract_kid_from_mpd
extract_kid_from_mpd(mpd) ==
    IF ~mpd.wellformed THEN None
    ELSE LET desc == Descendants(mpd.root)
             ClearKeyHit(e) == /\ e.tag = TagContentProtection
                               /\ e.schemeIdUri = ClearKeyScheme
                               /\ Truthy(FindKidChild(e))
             AnyKidHit(e) == e.tag = TagDefaultKid /\ Truthy(e.text)
             AttrHit(e) == e.default_KID # None
             all == <<mpd.root>> \o desc
             i1 == FirstIndex([n \in 1..Len(desc) |-> ClearKeyHit(desc[n])])
             i2 == FirstIndex([n \in 1..Len(desc) |-> AnyKidHit(desc[n])])
             i3 == FirstIndex([n \in 1..Len(all) |-> AttrHit(all[n])])
         IN  IF i1 > 0 THEN Strip(FindKidChild(desc[i1]))
             ELSE IF i2 > 0 THEN Strip(desc[i2].text)
             ELSE IF i3 > 0 THEN all[i3].default_KID
             ELSE None

\* first_item.get('drm', {}).get('clearkey', {}).get('licenseUrl', ''):
\* "<AttributeError>" when a value on the way is not an object
LicenseUrlOf(item) ==
    IF item.t # "obj" THEN "<AttributeError>"
    ELSE LET drm == GetOr(item, "drm")
         IN  IF drm.t # "obj" THEN "<AttributeError>"
             ELSE LET ck == GetOr(drm, "clearkey")
                  IN  IF ck.t # "obj" THEN "<AttributeError>"
                      ELSE IF ~HasField(ck, "licenseUrl") THEN ""
                      ELSE LET u == Field(ck, "licenseUrl")
                           IN  IF u.t = "str" THEN u.s
                               ELSE IF u.t = "null" THEN ""
                               ELSE "<NotText>"

\* KeyFetcher.find_license_url_from_json on the document the file holds;
\* sidecar = [readable, data]: an unreadable or non-JSON file raises
find_license_url_from_json(sidecar) ==
    IF ~sidecar.readable \/ sidecar.data.t # "obj" THEN None
    ELSE LET data == sidecar.data
             options == GetOr(data, "options")
             raw_options == GetOr(data, "rawOptions")
             NonEmptyList(v) == v.t = "list" /\ Len(v.items) > 0
             Strip1(u) == IF u = "<NotText>" THEN None
                          ELSE IF Contains(u, "token=")
                          THEN Split(u, "token=")[1] \o "token="
                          ELSE u
             Raw ==
                 IF raw_options.t \notin {"obj", "list", "str"} THEN None
                 ELSE IF PyContains("playlist", raw_options) # "yes" THEN None
                 ELSE IF raw_options.t # "obj" THEN None
                 ELSE LET pl == Field(raw_options, "playlist")
                      IN  IF ~NonEmptyList(pl) THEN None
                          ELSE LET u == LicenseUrlOf(pl.items[1])
                               IN  IF u = "<AttributeError>" THEN None
                                   ELSE IF u = "" THEN None
                                   ELSE u
         IN  IF options.t # "obj" THEN None
             ELSE LET pl == IF HasField(options, "playlist")
                            THEN Field(options, "playlist")
                            ELSE JList(<< >>)
                  IN  IF NonEmptyList(pl)
                      THEN LET u == LicenseUrlOf(pl.items[1])
                           IN  IF u = "<AttributeError>" THEN None
                               ELSE IF u # "" THEN Strip1(u)
                               ELSE Raw
                      ELSE Raw

\* the fallback key id of lines 194-196: "AAAAAAAAAAAAAAAAAAAAAA" + "=="
\* decoded and encoded again
TestKidBase64Url ==
    RStripPad(urlsafe_b64encode(b64decode("AAAAAAAAAAAAAAAAAAAAAA" \o "==").bytes))

\* a faulty variant: the fallback branch leaves the kids list empty
CreateRequestWithoutFallback(kid_base64) ==
    IF Truthy(kid_base64) /\ b64decode(kid_base64).ok
    THEN [kids |-> <<RStripPad(urlsafe_b64encode(b64decode(kid_base64).bytes))>>,
          type |-> "temporary"]
    ELSE [kids |-> << >>, type |-> "temporary"]

\* KeyFetcher.create_clearkey_request
create_clearkey_request(kid_base64) ==
    IF Truthy(kid_base64) /\ b64decode(kid_base64).ok
    THEN [kids |-> <<RStripPad(urlsafe_b64encode(b64decode(kid_base64).bytes))>>,
          type |-> "temporary"]
    ELSE [kids |-> <<TestKidBase64Url>>, type |-> "temporary"]


TestKidHex == "00000000000000000000000000000000"
B64PadClass == B64Std \o "="

\* a faulty variant of the padding step: the text is decoded as received
PadB64Unpadded(b64) == b64

\* lines 223-226 and 233-235: pad a base64 text to a multiple of four
PadB64(b64) ==
    LET padding == 4 - (Len(b64) % 4)
    IN  IF padding # 4 THEN b64 \o Repeat("=", padding) ELSE b64

\* len(v) of a JSON value: -1 stands for TypeError
PyLen(v) ==
    CASE v.t = "str"  -> Len(v.s)
      [] v.t = "list" -> Len(v.items)
      [] v.t = "obj"  -> Len(v.fields)
      [] OTHER        -> -1

\* One entry of the "keys" array (lines 218-246):
\*   [r |-> "emit", key |-> kid_hex:key_hex]
\*   [r |-> "skip"]   no k or kid, or the inner try caught a decode error
\*   [r |-> "raise"]  an exception left the loop (outer except Exception)
ParseEntry(key_info) ==
    LET skip == [r |-> "skip", key |-> ""]
        raise == [r |-> "raise", key |-> ""]
    IN  IF PyContains("k", key_info) = "TypeError" THEN raise
        ELSE IF PyContains("k", key_info) = "no"
                \/ PyContains("kid", key_info) = "no" THEN skip
        ELSE IF key_info.t # "obj" THEN raise
        ELSE LET k == Field(key_info, "k")
                 kid == Field(key_info, "kid")
             IN  IF PyLen(k) < 0 THEN raise
                 ELSE IF k.t = "obj" /\ PyLen(k) % 4 # 0 THEN raise
                 ELSE IF k.t # "str" THEN skip
                 ELSE IF ~b64decode(PadB64(k.s)).ok THEN skip
                 ELSE IF kid.t # "str" THEN skip
                 ELSE IF ~b64decode(PadB64(kid.s)).ok THEN skip
                 ELSE [r   |-> "emit",
                       key |-> hex(b64decode(PadB64(kid.s)).bytes) \o ":"
                               \o hex(b64decode(PadB64(k.s)).bytes)]

\* the for loop of lines 217-246 from entry i on
RECURSIVE ParseEntries(_, _, _)
ParseEntries(items, i, keys) ==
    IF i > Len(items) THEN [raised |-> FALSE, keys |-> keys]
    ELSE LET e == ParseEntry(items[i])
         IN  CASE e.r = "raise" -> [raised |-> TRUE, keys |-> keys]
               [] e.r = "skip"  -> ParseEntries(items, i + 1, keys)
               [] e.r = "emit"  ->
                      ParseEntries(items, i + 1, Append(keys, e.key))

\* lines 248-270: the first base64-looking token of 24 characters or more
\* that decodes (with "==" appended) to 16 bytes
RECURSIVE InlineFallback(_, _)
InlineFallback(matches, i) ==
    IF i > Len(matches) THEN << >>
    ELSE LET m == matches[i]
             d == b64decode(m \o "==")
         IN  IF Len(m) >= 24 /\ d.ok /\ Len(d.bytes) = 16
             THEN <<TestKidHex \o ":" \o hex(d.bytes)>>
             ELSE InlineFallback(matches, i + 1)

\* KeyFetcher.parse_clearkey_response:
\*   [raised |-> TRUE] when an exception leaves the function (the latin-1
\*   encoding of line 278 runs inside an except clause), else the list
parse_clearkey_response(body) ==
    IF body.kind = "text"
    THEN IF Len(body.text) >= 16
         THEN LET enc == encode_latin1(SubSeq(body.text, 1, 16))
              IN  IF enc.ok
                  THEN [raised |-> FALSE,
                        keys |-> <<TestKidHex \o ":" \o hex(enc.bytes)>>]
                  ELSE [raised |-> TRUE, keys |-> << >>]
         ELSE [raised |-> FALSE, keys |-> << >>]
    ELSE LET data == body.value
             has == PyContains("keys", data)
             primary ==
                 IF has = "TypeError" THEN [raised |-> TRUE, keys |-> << >>]
                 ELSE IF has = "no" THEN [raised |-> FALSE, keys |-> << >>]
                 ELSE IF data.t # "obj" THEN [raised |-> TRUE, keys |-> << >>]
                 ELSE IF Field(data, "keys").t # "list"
                 THEN [raised |-> FALSE, keys |-> << >>]
                 ELSE ParseEntries(Field(data, "keys").items, 1, << >>)
         IN  IF primary.raised THEN [raised |-> FALSE, keys |-> primary.keys]
             ELSE IF primary.keys # << >> THEN primary
             ELSE [raised |-> FALSE,
                   keys |-> InlineFallback(
                                FindAll(body.text, B64PadClass, 20, Len(body.text)), 1)]

\* lines 425-436: every 22..24 character base64 token that decodes (with
\* "==" appended) to 16 bytes
RECURSIVE AltBase64Keys(_, _)
AltBase64Keys(matches, i) ==
    IF i > Len(matches) THEN << >>
    ELSE LET d == b64decode(matches[i] \o "==")
         IN  (IF d.ok /\ Len(d.bytes) = 16
              THEN <<TestKidHex \o ":" \o hex(d.bytes)>> ELSE << >>)
             \o AltBase64Keys(matches, i + 1)

InSeq(x, seq) == \E i \in 1..Len(seq) : seq[i] = x

\* lines 442-448: every 32 character hex token not already in the list
RECURSIVE AltHexKeys(_, _, _)
AltHexKeys(matches, i, keys) ==
    IF i > Len(matches) THEN keys
    ELSE LET key_str == TestKidHex \o ":" \o matches[i]
         IN  AltHexKeys(matches, i + 1,
                        IF Len(matches[i]) = 32 /\ ~InSeq(key_str, keys)
                        THEN Append(keys, key_str) ELSE keys)

\* KeyFetcher.try_alternative_methods
try_alternative_methods(body) ==
    AltHexKeys(FindAll(body.text, HexAny, 32, 32), 1,
               AltBase64Keys(FindAll(body.text, B64Std, 22, 24), 1))


(***************************************************************************)
(* The inputs of the key pipeline: manifests, sidecar documents and        *)
(* license responses the network can deliver.                              *)
(***************************************************************************)
\* default_KID values a manifest carries: 16-byte values in base64 with
\* padding, the same without padding, with surrounding blanks, a UUID
\* spelling, and text that is no base64
KidTexts ==
    {"AAAAAAAAAAAAAAAAAAAAAA==", "nrQFDeRLSAKTLifXUIPiZg==",
     "+//+EREREREREREREREREQ==", "nrQFDeRLSAKTLifXUIPiZg",
     " nrQFDeRLSAKTLifXUIPiZg== ", "9eb4050d-e44b-4802-932e-27d75083e266",
     "!!!", " "}

Leaf(tag, text) == Elem(tag, "", text, None, << >>)
Mpd(children) ==
    [wellformed |-> TRUE,
     root |-> Elem("{urn:mpeg:dash:schema:mpd:2011}MPD", "", None, None, children)]
BrokenMpd == [wellformed |-> FALSE, root |-> Leaf("", None)]
\* a text that breaks off inside <ContentProtection default_KID="..."
\* (for a text that is not well-formed, root is the element it spells out)
BrokenMpdWithKid ==
    [wellformed |-> FALSE,
     root |-> Elem(TagContentProtection, "", None, "nrQFDeRLSAKTLifXUIPiZg==", << >>)]
WidevineScheme == "urn:uuid:edef8ba9-79d6-4ace-a3c8-27dcd51d21ed"

Manifests ==
    {BrokenMpd, BrokenMpdWithKid, Mpd(<< >>),
     Mpd(<<Leaf("default_KID", "nrQFDeRLSAKTLifXUIPiZg==")>>),
     Mpd(<<Elem(TagContentProtection, ClearKeyScheme, None, None, << >>)>>)}
    \cup {Mpd(<<Elem(TagContentProtection, ClearKeyScheme, None, None,
                     <<Leaf(TagDefaultKid, t)>>)>>) : t \in KidTexts}
    \cup {Mpd(<<Elem(TagContentProtection, WidevineScheme, None, None,
                     <<Leaf(TagDefaultKid, t)>>)>>) : t \in KidTexts}
    \cup {Mpd(<<Leaf(TagDefaultKid, "AAAAAAAAAAAAAAAAAAAAAA=="),
                Elem(TagContentProtection, ClearKeyScheme, None, None,
                     <<Leaf(TagDefaultKid, t)>>)>>) : t \in KidTexts}
    \cup {Mpd(<<Elem("{urn:mpeg:dash:schema:mpd:2011}AdaptationSet", "", None,
                     t, << >>)>>) : t \in KidTexts \cup {""}}

\* the outcome of KeyFetcher.get_mpd_content: a request error (None), an
\* empty text, or the text of a manifest
Fetches ==
    {[ok |-> FALSE, empty |-> TRUE, mpd |-> BrokenMpd],
     [ok |-> TRUE, empty |-> TRUE, mpd |-> BrokenMpd]}
    \cup {[ok |-> TRUE, empty |-> FALSE, mpd |-> m] : m \in Manifests}

PlaylistWith(url) ==
    JList(<<JObj(<< <<"drm", JObj(<< <<"clearkey",
                JObj(<< <<"licenseUrl", JStr(url)>> >>)>> >>)>> >>)>>)
LicenseUrls ==
    {"https://license.kinescope.io/v1/vod/abc/acquire/clearkey?token=",
     "https://license.kinescope.io/v1/vod/abc/acquire/clearkey?token=xyz",
     "https://license.example/ck"}

\* json_file_path: not given, a file that cannot be read as JSON, or a
\* document (with a license URL under options, under rawOptions, under
\* both, or with state.driver.drmInfo only)
NoSidecar == [given |-> FALSE, readable |-> FALSE, data |-> JNull]
Sidecars ==
    {NoSidecar,
     [given |-> TRUE, readable |-> FALSE, data |-> JNull],
     [given |-> TRUE, readable |-> TRUE, data |-> JObj(<< >>)],
     [given |-> TRUE, readable |-> TRUE, data |-> JList(<< >>)],
     [given |-> TRUE, readable |-> TRUE,
      data |-> JObj(<< <<"options", JObj(<< <<"playlist", JList(<<JNum>>)>> >>)>> >>)]}
    \cup {[given |-> TRUE, readable |-> TRUE,
           data |-> JObj(<< <<"options", JObj(<< <<"playlist", PlaylistWith(u)>> >>)>> >>)]
          : u \in LicenseUrls \cup {""}}
    \cup {[given |-> TRUE, readable |-> TRUE,
           data |-> JObj(<< <<"rawOptions", JObj(<< <<"playlist", PlaylistWith(u)>> >>)>> >>)]
          : u \in LicenseUrls}
    \cup {[given |-> TRUE, readable |-> TRUE,
           data |-> JObj(<< <<"options", JObj(<< <<"playlist",
                                PlaylistWith("https://license.example/ck")>> >>)>>,
                            <<"rawOptions", JObj(<< <<"playlist",
                                PlaylistWith("https://license.example/raw")>> >>)>> >>)],
          [given |-> TRUE, readable |-> TRUE,
           data |-> JObj(<< <<"state", JObj(<< <<"driver", JObj(<< <<"drmInfo",
                        JObj(<< <<"keySystem", JStr("org.w3.clearkey")>>,
                                <<"videoId", JStr("0f3c9a1e")>> >>)>> >>)>> >>)>> >>)]}

MpdUrls == {"https://kinescope.io/e77045a2/master.mpd", "master.mpd"}
Referrers == {"https://super-effect.ru/"}

KeyEntry(k, kid) ==
    JObj(<< <<"kty", JStr("oct")>>, <<"k", JStr(k)>>, <<"kid", JStr(kid)>> >>)

\* entries of a "keys" array: well-formed 16-byte pairs, a key of 3 bytes,
\* a kid of 2 bytes, a key whose length is 1 mod 4, an entry without k, a
\* k that is a number, and entries that are not objects
Entries ==
    {KeyEntry("AAAAAAAAAAAAAAAAAAAAAA", "AAAAAAAAAAAAAAAAAAAAAA"),
     KeyEntry("AQIDBAUGBwgJCgsMDQ4PEA", "nrQFDeRLSAKTLifXUIPiZg"),
     KeyEntry("AAAA", "nrQFDeRLSAKTLifXUIPiZg"),
     KeyEntry("AQIDBAUGBwgJCgsMDQ4PEA", "AAA"),
     KeyEntry("AQIDBAUGBwgJCgsMDQ4PE", "nrQFDeRLSAKTLifXUIPiZg"),
     JObj(<< <<"kty", JStr("oct")>>, <<"kid", JStr("nrQFDeRLSAKTLifXUIPiZg")>> >>),
     JObj(<< <<"k", JNum>>, <<"kid", JStr("nrQFDeRLSAKTLifXUIPiZg")>> >>),
     JNum, JStr("kid")}

RECURSIVE SeqsUpTo(_, _)
SeqsUpTo(S, n) ==
    IF n = 0 THEN {<< >>}
    ELSE SeqsUpTo(S, n - 1)
         \cup {Append(q, e) : q \in {r \in SeqsUpTo(S, n - 1) : Len(r) = n - 1},
                               e \in S}

\* 16-byte values: all zero, 1..16, all 255, a KID, and one whose base64
\* text is made of "+"
KeyBytes ==
    {[i \in 1..16 |-> 0], [i \in 1..16 |-> i], [i \in 1..16 |-> 255],
     <<158, 180, 5, 13, 228, 75, 72, 2, 147, 46, 39, 215, 80, 131, 226, 102>>,
     [i \in 1..16 |-> IF i % 3 = 1 THEN 251 ELSE IF i % 3 = 2 THEN 239 ELSE 190]}

\* the license response of one key: {"keys":[{"kty":"oct","k":..,"kid":..}]}
\* with base64.b64encode texts, their trailing "=" removed
OneKeyBody(kid, k) ==
    LET b64(bytes) == RStripPad(B64EncodeWith(bytes, B64Std))
    IN  JsonBody(JObj(<< <<"keys", JList(<<KeyEntry(b64(k), b64(kid))>>)>> >>))

\* license response bodies: JSON documents and plain text (one of them with
\* a character outside Latin-1)
Bodies ==
    {JsonBody(JObj(<< <<"keys", JList(es)>> >>)) : es \in SeqsUpTo(Entries, MaxEntries)}
    \cup {JsonBody(JNum), JsonBody(JList(<< >>)), JsonBody(JStr("keys")),
          JsonBody(JObj(<< <<"keys", JStr("none")>> >>)),
          JsonBody(JObj(<< <<"key", JStr("AQIDBAUGBwgJCgsMDQ4PEA==")>> >>)),
          JsonBody(JObj(<< <<"key", JStr("AQIDBAUGBwgJCgsMDQ4PEA")>> >>)),
          JsonBody(JObj(<< <<"key", JStr("00112233445566778899AABBCCDDEEFF")>> >>)),
          JsonBody(JObj(<< <<"error", JStr("forbidden")>> >>)),
          TextBody(""), TextBody("denied"),
          TextBody("license denied by server"),
          TextBody("€ denied by the license server"),
          TextBody("key=00112233445566778899aabbccddeeff")}

\* the outcome of KeyFetcher.send_license_request: None (an exception or a
\* status other than 200) or the body of a 200 response
Posts ==
    {[ok |-> FALSE, body |-> TextBody("")]}
    \cup {[ok |-> TRUE, body |-> b] : b \in Bodies}


\* lines 375-383 of get_keys: the sidecar's URL, else the standard URL built
\* from the last but one piece of the manifest URL
LocateLicenseUrl(mpd_url, sidecar) ==
    LET found == IF sidecar.given THEN find_license_url_from_json(sidecar)
                 ELSE None
        pieces == Split(mpd_url, "/")
        video_id == IF Len(pieces) >= 2 THEN pieces[Len(pieces) - 1]
                    ELSE "unknown"
    IN  IF Truthy(found) THEN found
        ELSE "https://license.kinescope.io/v1/vod/" \o video_id
             \o "/acquire/clearkey"

\* lines 397-406 of get_keys: the decode stage on a non-empty body; an
\* exception that leaves parse_clearkey_response is caught by get_keys,
\* which then returns its empty list
DecodeStage(body) ==
    LET p == parse_clearkey_response(body)
    IN  IF p.raised THEN << >>
        ELSE IF p.keys # << >> THEN p.keys
        ELSE try_alternative_methods(body)

\* KeyFetcher.get_keys as one call, given what the network delivers
get_keys(fetch, post) ==
    IF ~fetch.ok \/ fetch.empty THEN << >>
    ELSE IF ~post.ok \/ post.body.text = "" THEN << >>
    ELSE DecodeStage(post.body)

(***************************************************************************)
(* core/config.py and core/downloader.py: VideoDownloader                  *)
(***************************************************************************)
\* AppConfig defaults
ConfigNm3u8dlRe == "./utils/N_m3u8DL-RE/N_m3u8DL-RE.exe"
ConfigFfmpeg == "./utils/N_m3u8DL-RE/ffmpeg.exe"
ConfigOutputDir == "./downloads"
ConfigTempDir == "./temp"

\* the first entry of the quality list (the source spells it in Cyrillic)
QualityAuto == "Auto"

\* a key list argument: None, or a list of KID:KEY strings
KeysNone == [isNone |-> TRUE, list |-> << >>]
KeysOf(l) == [isNone |-> FALSE, list |-> l]
\* Python truthiness of a drm_keys value
KeysTruthy(k) == ~k.isNone /\ k.list # << >>

\* str.lower() over ASCII
UpperAlpha == "ABCDEFGHIJKLMNOPQRSTUVWXYZ"
LowerAlpha == "abcdefghijklmnopqrstuvwxyz"
RECURSIVE LowerRange(_, _, _)
LowerRange(s, from, to) ==
    IF from > to THEN ""
    ELSE IF from = to
    THEN LET c == Char(s, from)
         IN  IF IndexIn(c, UpperAlpha) > 0
             THEN Char(LowerAlpha, IndexIn(c, UpperAlpha)) ELSE c
    ELSE LET mid == (from + to) \div 2
         IN  LowerRange(s, from, mid) \o LowerRange(s, mid + 1, to)
Lower(s) == LowerRange(s, 1, Len(s))

\* lines 190-195
quality_map == [q \in {"1080p", "720p", "480p", "360p"} |->
                   SubSeq(q, 1, Len(q) - 1)]

\* a faulty variant: every key overwrites the one before it
KeyArgsLastOnly(keys) ==
    IF keys = << >> THEN << >> ELSE <<"--key", keys[Len(keys)]>>

\* lines 203-205: "--key", key for every key of the list, in order
RECURSIVE KeyArgs(_)
KeyArgs(keys) ==
    IF keys = << >> THEN << >>
    ELSE <<"--key", Head(keys)>> \o KeyArgs(Tail(keys))

\* lines 160-162: the caller's name, else one made from the clock
OutputFilename(output_filename, timestamp) ==
    IF Truthy(output_filename) THEN output_filename
    ELSE "kinescope_video_" \o timestamp \o ".mp4"

\* a faulty variant: the temp directory is named after the output file
BuildArgsTempPerFile(mpd_url, referrer, quality, drm_keys, filename, ffmpeg_exists) ==
    <<ConfigNm3u8dlRe, mpd_url,
      "--save-name", filename,
      "--save-dir", ConfigOutputDir,
      "--tmp-dir", ConfigTempDir \o "/" \o filename,
      "--check-segments-count", "false",
      "--binary-merge",
      "--log-level", "INFO",
      "--del-after-done",
      "--no-date-info",
      "--concurrent-download">>
    \o (IF Truthy(referrer)
        THEN <<"--header", "referer: " \o referrer,
               "--header", "User-Agent: Mozilla/5.0 (Windows NT 10.0; Win64; x64) AppleWebKit/537.36",
               "--header", "Origin: https://kinescope.io">>
        ELSE << >>)
    \o (IF quality # QualityAuto
        THEN IF quality \in DOMAIN quality_map
             THEN <<"--select-video", "quality=" \o quality_map[quality]>>
             ELSE << >>
        ELSE <<"--auto-select">>)
    \o (IF KeysTruthy(drm_keys) THEN KeyArgs(drm_keys.list) ELSE << >>)
    \o (IF ffmpeg_exists THEN <<"--ffmpeg-binary-path", ConfigFfmpeg>> ELSE << >>)

\* lines 167-213: the argument vector of the external downloader
BuildArgs(mpd_url, referrer, quality, drm_keys, filename, ffmpeg_exists) ==
    <<ConfigNm3u8dlRe, mpd_url,
      "--save-name", filename,
      "--save-dir", ConfigOutputDir,
      "--tmp-dir", ConfigTempDir,
      "--check-segments-count", "false",
      "--binary-merge",
      "--log-level", "INFO",
      "--del-after-done",
      "--no-date-info",
      "--concurrent-download">>
    \o (IF Truthy(referrer)
        THEN <<"--header", "referer: " \o referrer,
               "--header", "User-Agent: Mozilla/5.0 (Windows NT 10.0; Win64; x64) AppleWebKit/537.36",
               "--header", "Origin: https://kinescope.io">>
        ELSE << >>)
    \o (IF quality # QualityAuto
        THEN IF quality \in DOMAIN quality_map
             THEN <<"--select-video", "quality=" \o quality_map[quality]>>
             ELSE << >>
        ELSE <<"--auto-select">>)
    \o (IF KeysTruthy(drm_keys) THEN KeyArgs(drm_keys.list) ELSE << >>)
    \o (IF ffmpeg_exists THEN <<"--ffmpeg-binary-path", ConfigFfmpeg>> ELSE << >>)

\* a message sent to the log sink
Msg(text, level) == [msg |-> text, level |-> level]

\* a faulty variant: the missing utilities are logged and nothing more
CheckDependenciesLogOnly(n_m3u8dl_re_exists, ffmpeg_exists) ==
    [ok  |-> TRUE,
     log |-> (IF ~n_m3u8dl_re_exists
              THEN <<Msg("not found: N_m3u8DL-RE", "error")>> ELSE << >>)
             \o (IF ~ffmpeg_exists
                 THEN <<Msg("not found: FFmpeg", "warning")>> ELSE << >>)]

\* lines 33-49: check_dependencies, as [ok, log]
check_dependencies(n_m3u8dl_re_exists, ffmpeg_exists) ==
    LET l1 == IF ~n_m3u8dl_re_exists
              THEN <<Msg("not found: N_m3u8DL-RE", "error")>> ELSE << >>
        l2 == IF ~ffmpeg_exists
              THEN <<Msg("not found: FFmpeg", "warning")>> ELSE << >>
        missing == ~n_m3u8dl_re_exists \/ ~ffmpeg_exists
    IN  [ok  |-> ~missing,
         log |-> l1 \o l2
                 \o (IF missing THEN <<Msg("required utilities are missing", "error")>>
                     ELSE << >>)]

\* a faulty variant: the branch without keys logs nothing
KeyBranchLogQuiet(drm_keys) ==
    IF KeysTruthy(drm_keys)
    THEN <<Msg("keys added for decryption", "success")>>
    ELSE << >>

\* lines 203-209: what the key branch logs
KeyBranchLog(drm_keys) ==
    IF KeysTruthy(drm_keys)
    THEN <<Msg("keys added for decryption", "success")>>
    ELSE <<Msg("WARNING: no DRM keys were passed", "warning"),
           Msg("the video will be downloaded encrypted", "warning")>>

\* a faulty variant: the connection test comes first
FailureCategoryConnectionFirst(output) ==
    IF Contains(Lower(output), "connection")
    THEN <<Msg("connection problem", "warning")>>
    ELSE IF Contains(Lower(output), "key") \/ Contains(Lower(output), "decrypt")
    THEN <<Msg("possibly a problem with the DRM keys", "warning")>>
    ELSE IF Contains(Lower(output), "xml")
    THEN <<Msg("problem with the MPD file", "warning")>>
    ELSE << >>

\* lines 240-245: the advisory category of a failed run
FailureCategory(output) ==
    IF Contains(Lower(output), "key") \/ Contains(Lower(output), "decrypt")
    THEN <<Msg("possibly a problem with the DRM keys", "warning")>>
    ELSE IF Contains(Lower(output), "connection")
    THEN <<Msg("connection problem", "warning")>>
    ELSE IF Contains(Lower(output), "xml")
    THEN <<Msg("problem with the MPD file", "warning")>>
    ELSE << >>

\* a faulty variant: the exit code alone decides
ClassifyByExitCode(success, output, file) ==
    [result |-> success,
     log |-> IF success THEN <<Msg("VIDEO DOWNLOADED", "success")>>
             ELSE <<Msg("download error", "error")>>]

\* lines 221-247: the result of download_video after run_command returned
\* (success, output), as [result, log]; file is the state of the expected
\* output file: "absent", "empty" or "data"
Classify(success, output, file) ==
    IF success
    THEN IF file # "absent"
         THEN [result |-> TRUE,
               log |-> <<Msg("VIDEO DOWNLOADED", "success"),
                         Msg("file", "success"), Msg("size", "success"),
                         Msg("path", "success")>>]
         ELSE [result |-> FALSE,
               log |-> <<Msg("file was not created", "error"),
                         Msg("check the downloads folder", "info")>>]
    ELSE [result |-> FALSE,
          log |-> <<Msg("download error", "error")>> \o FailureCategory(output)]

\* successive clock readings (datetime.now().strftime("%Y%m%d_%H%M%S"))
Clock == <<"20260109_101500", "20260109_101501", "20260109_101502">>
Timestamps == {Clock[i] : i \in DOMAIN Clock}

\* what a caller of download_video passes
Qualities == {QualityAuto, "1080p", "360p", "1440p"}
OutputFilenames == {None, "lesson.mp4"}
KeyStrings ==
    {"00000000000000000000000000000000:00000000000000000000000000000000",
     "9eb4050de44b4802932e27d75083e266:0102030405060708090a0b0c0d0e0f10"}
DirectKeyLists ==
    {KeysNone} \cup {KeysOf(l) : l \in SeqsUpTo(KeyStrings, MaxKeys)}

\* runs of the external downloader: its exit code, what it printed, what it
\* did to the output file ("keep": it did not touch it) and what it left
\* in the temp directory
ProcessRuns ==
    {[code |-> 0, out |-> "Done", file |-> "data", temp |-> "empty"],
     [code |-> 0, out |-> "Done", file |-> "keep", temp |-> "segments"],
     [code |-> 0, out |-> "", file |-> "empty", temp |-> "empty"],
     [code |-> 1, out |-> "ERROR: DECRYPT failed", file |-> "keep", temp |-> "segments"],
     [code |-> 1, out |-> "Bad Key", file |-> "data", temp |-> "segments"],
     [code |-> 1, out |-> "Connection refused", file |-> "keep", temp |-> "segments"],
     [code |-> 1, out |-> "Invalid XML in manifest", file |-> "keep", temp |-> "empty"],
     [code |-> 1, out |-> "Connection lost while fetching KEY", file |-> "keep", temp |-> "segments"],
     [code |-> 2, out |-> "Connection reset: invalid Xml", file |-> "keep", temp |-> "empty"],
     [code |-> 1, out |-> "", file |-> "keep", temp |-> "segments"]}
LaunchErrors == {"[Errno 13] Permission denied"}

\* what a child process does before it exits: the lines it writes, each to
\* its stdout ("out") or its stderr ("err"), in order
ChildScripts ==
    {<< >>,
     <<[stream |-> "out", text |-> "o1"]>>,
     <<[stream |-> "out", text |-> "o1"], [stream |-> "out", text |-> "  "], [stream |-> "out", text |-> "o2"]>>,
     <<[stream |-> "err", text |-> "e1"]>>,
     <<[stream |-> "err", text |-> "e1"], [stream |-> "out", text |-> "o1"]>>,
     <<[stream |-> "out", text |-> "o1"], [stream |-> "err", text |-> "e1"], [stream |-> "out", text |-> "o2"]>>,
     [i \in 1..(PipeCap + 1) |->
        [stream |-> "err", text |-> "e" \o Char("123456789", i)]]}

\* the names an output file can have
OutputNames ==
    {OutputFilename(f, t) : f \in OutputFilenames, t \in Timestamps}

(***************************************************************************)
(* gui/main_window.py: what the window reads from the selected JSON file.  *)
(***************************************************************************)
\* s.replace(old, new)
RECURSIVE Join(_, _)
Join(pieces, sep) ==
    IF Len(pieces) = 1 THEN pieces[1]
    ELSE pieces[1] \o sep \o Join(Tail(pieces), sep)
Replace(s, old, new) == Join(Split(s, old), new)

\* JSON files the user can select, by what JSONParser.parse_json_file
\* finds in them: the referrer, the m3u8 source of the first playlist item
\* and the quality labels.  (A file that does not parse makes parse_json
\* return at line 450 with nothing changed.)
JsonFiles ==
    {[referrer |-> "https://super-effect.ru/",
      m3u8 |-> "https://kinescope.io/e77045a2/master.m3u8?expires=1767979636&token=",
      qualities |-> << >>],
     [referrer |-> "https://super-effect.ru/",
      m3u8 |-> "https://kinescope.io/e77045a2/master.m3u8?expires=1767979636&token=",
      qualities |-> <<"1440p", "240p">>]}

\* lines 73-80 of json_parser.py: the MPD URL made from the m3u8 URL
MpdUrlOf(m3u8_url) == Split(Replace(m3u8_url, ".m3u8", ".mpd"), "?")[1]

\* what parse_json puts into the window for each of these files (lines
\* 455-476 of main_window.py)
ParsedFiles ==
    {[ref_edit |-> file.referrer,
      mpd_edit |-> IF file.m3u8 # "" THEN MpdUrlOf(file.m3u8)
                   ELSE "URL not found in JSON",
      qualities |-> file.qualities] : file \in JsonFiles}

DefaultQualities == <<"1080p", "720p", "480p", "360p">>

\* what get_keys returns to the window for a ClearKey manifest, when the
\* license server does not answer, answers with one key or with two
GuiFetches ==
    {[ok |-> TRUE, empty |-> FALSE,
      mpd |-> Mpd(<<Elem(TagContentProtection, ClearKeyScheme, None, None,
                         <<Leaf(TagDefaultKid, "nrQFDeRLSAKTLifXUIPiZg==")>>)>>)]}
GuiPosts ==
    {[ok |-> FALSE, body |-> TextBody("")]}
    \cup {[ok |-> TRUE, body |-> JsonBody(JObj(<< <<"keys", JList(es)>> >>))] :
            es \in {<<KeyEntry("AQIDBAUGBwgJCgsMDQ4PEA", "nrQFDeRLSAKTLifXUIPiZg")>>,
                    <<KeyEntry("AQIDBAUGBwgJCgsMDQ4PEA", "nrQFDeRLSAKTLifXUIPiZg"),
                      KeyEntry("AAAAAAAAAAAAAAAAAAAAAA", "AAAAAAAAAAAAAAAAAAAAAA")>>}}
GuiKeyResults == {get_keys(f, p) : f \in GuiFetches, p \in GuiPosts}

(***************************************************************************)
(* State.                                                                  *)
(***************************************************************************)
VARIABLES
    kf,     \* one KeyFetcher.get_keys call: its position and its locals
            \* (a local is reset once no later line of the call reads it)
    dl,     \* the download jobs, by number: the DownloadThread, its
            \* VideoDownloader, the download_video call and what it logged
    gui,    \* the window: its fields, buttons and attributes
    env     \* the file system and the clock

vars == <<kf, dl, gui, env>>

Jobs == 1..MaxDownloads

NoRequest == [kids |-> << >>, type |-> ""]
NoPost == [ok |-> FALSE, body |-> TextBody("")]
NoFetch == [ok |-> FALSE, empty |-> TRUE, mpd |-> BrokenMpd]

KfIdle ==
    [pc |-> "idle", mpd_url |-> "", sidecar |-> NoSidecar,
     fetch |-> NoFetch, kid_base64 |-> None, license_url |-> None,
     request_data |-> NoRequest, post |-> NoPost, keys |-> << >>,
     raised |-> FALSE, stages |-> << >>]

\* run_command followed read by read: the child process ("none", "alive",
\* "exited"), what it has left to write, the lines in its two pipes, and
\* the lines run_command has collected
RcIdle ==
    [child |-> "none", script |-> << >>, written |-> << >>, code |-> 0,
     stdout_pipe |-> << >>, stderr_pipe |-> << >>,
     stdout_lines |-> << >>, stderr_lines |-> << >>]

\* thread: "none", "started" (QThread.start), "running" (run is inside
\* download_video), "emitted" (finished_signal is on its way to the window),
\* "terminated" (QThread.terminate in closeEvent)
DlIdle ==
    [pc |-> "idle", thread |-> "none",
     th_mpd_url |-> "", th_referrer |-> "", th_quality |-> QualityAuto,
     th_drm_keys |-> KeysNone,
     attr_drm_keys |-> KeysNone,
     mpd_url |-> "", referrer |-> "", quality |-> QualityAuto,
     drm_keys |-> KeysNone, output_filename |-> None,
     filename |-> "", args |-> << >>, first_args |-> << >>, not_before |-> 0,
     rc |-> RcIdle,
     log |-> << >>, launch_at |-> 0,
     success |-> FALSE, return_code |-> -1, output |-> "",
     result |-> FALSE]

\* MainWindow.__init__ and init_ui
GuiStart ==
    [json_file_path |-> FALSE,
     parse_btn |-> FALSE, keys_btn |-> FALSE, download_btn |-> FALSE,
     mpd_edit |-> "", ref_edit |-> "",
     quality_items |-> <<QualityAuto>> \o DefaultQualities,
     quality_index |-> 1, keep_temp |-> FALSE,
     drm_keys |-> KeysNone, download_thread |-> 0, started |-> 0,
     closed |-> FALSE]

\* After construction: the utilities may or may not be installed; the
\* output directory is empty, the temp directory exists and is empty.
Init ==
    /\ kf = KfIdle
    /\ dl = [j \in Jobs |-> DlIdle]
    /\ gui = GuiStart
    /\ \E n, f \in BOOLEAN :
          env = [n_m3u8dl_re |-> n, ffmpeg |-> f,
                 files |-> [name \in OutputNames |-> "absent"],
                 temp |-> "empty"]

(***************************************************************************)
(* KeyFetcher.get_keys, stage by stage.                                    *)
(***************************************************************************)
\* a faulty variant: get_keys goes on after a manifest fetch that gave
\* nothing
KfStepPastFailedFetch(stage, pc) ==
    [kf EXCEPT !.pc = IF stage = "fetch" THEN "extract" ELSE pc,
               !.stages = Append(@, stage)]

KfStep(stage, pc) == [kf EXCEPT !.pc = pc, !.stages = Append(@, stage)]

\* a caller invokes get_keys(mpd_url, referrer, json_file_path)
KF_Call ==
    /\ UNCHANGED <<dl, gui, env>>
    /\ kf.pc = "idle"
    /\ \E u \in MpdUrls, sc \in Sidecars :
          kf' = [kf EXCEPT !.pc = "fetch", !.mpd_url = u, !.sidecar = sc]

\* lines 363-368: get_mpd_content; no content ends the call
KF_FetchMpd ==
    /\ UNCHANGED <<dl, gui, env>>
    /\ kf.pc = "fetch"
    /\ \E f \in Fetches :
          kf' = [KfStep("fetch",
                        IF ~f.ok \/ f.empty THEN "done" ELSE "extract")
                 EXCEPT !.fetch = f]

\* lines 370-372
KF_ExtractKid ==
    /\ UNCHANGED <<dl, gui, env>>
    /\ kf.pc = "extract"
    /\ kf' = [KfStep("extract", "locate")
              EXCEPT !.kid_base64 = extract_kid_from_mpd(kf.fetch.mpd)]

\* lines 374-383
KF_LocateLicenseUrl ==
    /\ UNCHANGED <<dl, gui, env>>
    /\ kf.pc = "locate"
    /\ kf' = [KfStep("locate", "create")
              EXCEPT !.license_url = LocateLicenseUrl(kf.mpd_url, kf.sidecar),
                     !.mpd_url = "", !.fetch = NoFetch]

\* lines 385-387
KF_CreateRequest ==
    /\ UNCHANGED <<dl, gui, env>>
    /\ kf.pc = "create"
    /\ kf' = [KfStep("create", "send")
              EXCEPT !.request_data = create_clearkey_request(kf.kid_base64),
                     !.sidecar = NoSidecar]

\* lines 389-395: send_license_request; no body ends the call
KF_SendLicenseRequest ==
    /\ UNCHANGED <<dl, gui, env>>
    /\ kf.pc = "send"
    /\ \E p \in Posts :
          kf' = [KfStep("post",
                        IF ~p.ok \/ p.body.text = "" THEN "done" ELSE "parse")
                 EXCEPT !.post = p, !.kid_base64 = None,
                        !.license_url = None, !.request_data = NoRequest]

\* lines 397-402 (and 408-411 when the parser raises)
KF_ParseResponse ==
    /\ UNCHANGED <<dl, gui, env>>
    /\ kf.pc = "parse"
    /\ LET p == parse_clearkey_response(kf.post.body)
       IN  kf' = [KfStep("parse",
                         IF ~p.raised /\ p.keys = << >> THEN "alternative"
                         ELSE "done")
                  EXCEPT !.keys = IF p.raised THEN << >> ELSE p.keys,
                         !.raised = p.raised]

\* lines 403-406
KF_TryAlternative ==
    /\ UNCHANGED <<dl, gui, env>>
    /\ kf.pc = "alternative"
    /\ kf' = [KfStep("alternative", "done")
              EXCEPT !.keys = try_alternative_methods(kf.post.body)]

\* a caller invokes parse_clearkey_response(response_text) on the license
\* response of one 16-byte key, or of one entry whose k has a length of 4,
\* 5, 6, 7 or 21 characters; KF_ParseResponse is the call itself, and
\* stages = <<"parse">> says that it has returned
PCR_Call ==
    /\ UNCHANGED <<dl, gui, env>>
    /\ kf.pc = "idle"
    /\ \E body \in {OneKeyBody(kid, k) : kid, k \in KeyBytes}
                     \cup {JsonBody(JObj(<< <<"keys", JList(<<
                                KeyEntry(t, "nrQFDeRLSAKTLifXUIPiZg")>>)>> >>))
                            : t \in {"AAAA", "AAAAA", "AAAA-", "AAAAAA",
                                      "AAAAAAA", "AQIDBAUGBwgJCgsMDQ4PE"}} :
          kf' = [kf EXCEPT !.pc = "parse",
                           !.post = [ok |-> TRUE, body |-> body]]

(***************************************************************************)
(* VideoDownloader.download_video, step by step, for job j.                *)
(***************************************************************************)
DlLog(j, msgs) == [dl[j] EXCEPT !.log = @ \o msgs]

\* a caller invokes download_video(mpd_url, referrer, quality, audio_lang,
\* drm_keys, output_filename) on a new VideoDownloader
DV_Call ==
    /\ dl[1].pc = "idle"
    /\ \E u \in MpdUrls, r \in Referrers \cup {""}, q \in Qualities,
          k \in DirectKeyLists, o \in OutputFilenames :
          dl' = [dl EXCEPT ![1] =
                    [DlIdle EXCEPT !.pc = "check", !.mpd_url = u,
                                   !.referrer = r, !.quality = q,
                                   !.drm_keys = k, !.output_filename = o]]
    /\ UNCHANGED <<kf, gui, env>>

\* the caller invokes download_video once more, with the arguments of the
\* call that has returned; first_args keeps the vector that call built.
\* not_before is the earliest clock reading the new call can get when it
\* makes a file name: the reading of the first call, or the one after it
\* when the first call went through the time.sleep(1) of run_command
\* (line 76); 0 when the first call did not read the clock.
DV_CallAgain ==
    /\ dl[1].pc = "done"
    /\ dl[1].args # << >>
    /\ dl[1].first_args = << >>
    /\ LET read == CHOOSE i \in DOMAIN Clock :
                       dl[1].filename = OutputFilename(None, Clock[i])
       IN  dl' = [dl EXCEPT ![1] =
                 [DlIdle EXCEPT !.pc = "check", !.mpd_url = dl[1].mpd_url,
                                !.referrer = dl[1].referrer,
                                !.quality = dl[1].quality,
                                !.drm_keys = dl[1].drm_keys,
                                !.output_filename = dl[1].output_filename,
                                !.first_args = dl[1].args,
                                !.not_before =
                                    IF Truthy(dl[1].output_filename) THEN 0
                                    ELSE IF dl[1].launch_at > 0 THEN read + 1
                                    ELSE read]]
    /\ UNCHANGED <<kf, gui, env>>

\* lines 145-146: pre-flight
DV_CheckDependencies(j) ==
    /\ dl[j].pc = "check"
    /\ LET c == check_dependencies(env.n_m3u8dl_re, env.ffmpeg)
       IN  dl' = [dl EXCEPT ![j] =
                     [DlLog(j, c.log)
                      EXCEPT !.pc = IF c.ok THEN "build" ELSE "done",
                             !.result = FALSE]]
    /\ UNCHANGED <<kf, gui, env>>

\* lines 148-217: the file name, the argument vector and what is logged on
\* the way.  The clock is read only when no file name was passed; a first
\* call leaves one reading for the call after it, and a second call reads
\* no earlier than not_before.
DV_BuildArgs(j) ==
    /\ dl[j].pc = "build"
    /\ \E i \in DOMAIN Clock :
       LET timestamp == Clock[i]
           name == OutputFilename(dl[j].output_filename, timestamp)
       IN  /\ IF Truthy(dl[j].output_filename) THEN i = 1
              ELSE IF dl[j].first_args = << >> THEN i < Len(Clock)
              ELSE i >= dl[j].not_before
           /\ dl' = [dl EXCEPT ![j] =
                     [DlLog(j, <<Msg("DOWNLOAD START", "info")>>
                               \o KeyBranchLog(dl[j].drm_keys)
                               \o <<Msg("starting N_m3u8DL-RE", "info")>>)
                      EXCEPT !.pc = "launch",
                             !.filename = name,
                             !.args = BuildArgs(dl[j].mpd_url, dl[j].referrer,
                                                dl[j].quality, dl[j].drm_keys,
                                                name, env.ffmpeg)]]
    /\ UNCHANGED <<kf, gui, env>>

\* run_command, lines 53-66: Popen starts the process, or raises (lines
\* 120-122: run_command then returns (False, str(e)))
RC_Popen(j) ==
    /\ dl[j].pc = "launch"
    /\ \/ /\ dl' = [dl EXCEPT ![j] =
                       [DlLog(j, <<Msg("running command", "info")>>)
                        EXCEPT !.pc = "running",
                               !.launch_at = Len(dl[j].log) + 1]]
          /\ env' = [env EXCEPT !.temp = "segments"]
       \/ /\ \E e \in LaunchErrors :
                dl' = [dl EXCEPT ![j] =
                          [DlLog(j, <<Msg("running command", "info"),
                                      Msg("exception while running the command", "error")>>)
                           EXCEPT !.pc = "classify", !.success = FALSE,
                                  !.output = e]]
          /\ UNCHANGED env
    /\ UNCHANGED <<kf, gui>>

\* run_command, lines 84-118: the output is read until the process has
\* exited; the process may have written the output file and may have left
\* segments in the temp directory
RC_Collect(j) ==
    /\ dl[j].pc = "running"
    /\ \E run \in ProcessRuns :
          /\ dl' = [dl EXCEPT ![j] =
                       [DlLog(j, (IF run.out # "" THEN <<Msg(run.out, "info")>>
                                  ELSE << >>)
                                 \o (IF run.code # 0
                                     THEN <<Msg("return code", "error")>>
                                     ELSE << >>))
                        EXCEPT !.pc = "classify", !.return_code = run.code,
                               !.success = (run.code = 0), !.output = run.out]]
          /\ env' = [env EXCEPT !.files[dl[j].filename] =
                                    IF run.file = "keep" THEN @ ELSE run.file,
                                !.temp = run.temp]
    /\ UNCHANGED <<kf, gui>>

(***************************************************************************)
(* VideoDownloader.run_command read by read, with the child process and    *)
(* its two pipes.                                                          *)
(***************************************************************************)
\* a caller invokes run_command(args)
RC_Call ==
    /\ dl[1].pc = "idle"
    /\ \E u \in MpdUrls :
          dl' = [dl EXCEPT ![1] =
                    [DlIdle EXCEPT !.pc = "rc_popen",
                                   !.args = <<ConfigNm3u8dlRe, u>>]]
    /\ UNCHANGED <<kf, gui, env>>

\* lines 53-83: Popen starts the child with three pipes, or raises (lines
\* 120-122); the sleep and the newline written to stdin change nothing here
RC_PopenPipes(j) ==
    /\ dl[j].pc = "rc_popen"
    /\ \/ \E script \in ChildScripts :
             dl' = [dl EXCEPT ![j] =
                       [DlLog(j, <<Msg("running command", "info")>>)
                        EXCEPT !.pc = "rc_read",
                               !.rc = [RcIdle EXCEPT !.child = "alive",
                                                     !.script = script]]]
       \/ \E e \in LaunchErrors :
             dl' = [dl EXCEPT ![j] =
                       [DlLog(j, <<Msg("running command", "info"),
                                   Msg("exception while running the command", "error")>>)
                        EXCEPT !.pc = "rc_returned", !.success = FALSE,
                               !.output = e]]
    /\ UNCHANGED <<kf, gui, env>>

\* the child writes its next line; the write blocks while the pipe is full
\* (written keeps the lines the child has produced, in order)
Child_Write(j) ==
    /\ dl[j].rc.child = "alive"
    /\ dl[j].rc.script # << >>
    /\ LET line == Head(dl[j].rc.script)
       IN  IF line.stream = "out"
           THEN /\ Len(dl[j].rc.stdout_pipe) < PipeCap
                /\ dl' = [dl EXCEPT ![j].rc.stdout_pipe = Append(@, line.text),
                                    ![j].rc.script = Tail(@),
                                    ![j].rc.written = Append(@, line)]
           ELSE /\ Len(dl[j].rc.stderr_pipe) < PipeCap
                /\ dl' = [dl EXCEPT ![j].rc.stderr_pipe = Append(@, line.text),
                                    ![j].rc.script = Tail(@),
                                    ![j].rc.written = Append(@, line)]
    /\ UNCHANGED <<kf, gui, env>>

\* the child has written everything and exits, which closes its pipes
Child_Exit(j) ==
    /\ dl[j].rc.child = "alive"
    /\ dl[j].rc.script = << >>
    /\ \E code \in {0, 1} :
          dl' = [dl EXCEPT ![j].rc.child = "exited", ![j].rc.code = code]
    /\ UNCHANGED <<kf, gui, env>>

\* lines 85-93, one turn of the loop: process.stdout.readline() returns the
\* next line of the pipe, or '' at end of file (the child has exited);
\* with an empty pipe and a live child it does not return.  A line that is
\* not blank is logged and kept; '' with poll() not None ends the loop.
RC_ReadLine(j) ==
    /\ dl[j].pc = "rc_read"
    /\ IF dl[j].rc.stdout_pipe # << >>
       THEN LET output == Strip(Head(dl[j].rc.stdout_pipe))
            IN  dl' = [dl EXCEPT ![j] =
                          [DlLog(j, IF output # ""
                                    THEN <<Msg(output, "info")>> ELSE << >>)
                           EXCEPT !.rc.stdout_pipe = Tail(@),
                                  !.rc.stdout_lines =
                                      IF output # "" THEN Append(@, output)
                                      ELSE @]]
       ELSE /\ dl[j].rc.child = "exited"
            /\ dl' = [dl EXCEPT ![j].pc = "rc_communicate"]
    /\ UNCHANGED <<kf, gui, env>>

\* lines 96-118: communicate() returns what is left in the two pipes of the
\* child that has exited; the stderr lines are logged and kept, and the
\* exit code decides the result
RC_Communicate(j) ==
    /\ dl[j].pc = "rc_communicate"
    /\ LET rc == dl[j].rc
           stderr == SelectSeq(rc.stderr_pipe, LAMBDA line : line # "")
           lines == rc.stdout_lines \o stderr
       IN  dl' = [dl EXCEPT ![j] =
                     [DlLog(j, [i \in 1..Len(stderr) |->
                                   Msg("Error: " \o stderr[i], "warning")]
                               \o (IF rc.code # 0
                                   THEN <<Msg("return code", "error")>>
                                   ELSE << >>))
                      EXCEPT !.pc = "rc_returned",
                             !.rc.stderr_pipe = << >>,
                             !.rc.stderr_lines = stderr,
                             !.return_code = rc.code,
                             !.success = (rc.code = 0),
                             !.output = IF lines = << >> THEN ""
                                        ELSE Join(lines, "\n")]]
    /\ UNCHANGED <<kf, gui, env>>

\* lines 221-247: the outcome
DV_Classify(j) ==
    /\ dl[j].pc = "classify"
    /\ LET c == Classify(dl[j].success, dl[j].output, env.files[dl[j].filename])
       IN  dl' = [dl EXCEPT ![j] =
                     [DlLog(j, c.log) EXCEPT !.pc = "done", !.result = c.result]]
    /\ UNCHANGED <<kf, gui, env>>

\* the steps of download_video, which a thread that was terminated
\* (QThread.terminate) takes no more
DlSteps ==
    \E j \in {k \in Jobs : dl[k].thread # "terminated"} :
        \/ DV_CheckDependencies(j)
        \/ DV_BuildArgs(j)
        \/ RC_Popen(j)
        \/ RC_Collect(j)
        \/ DV_Classify(j)

DownloaderNext ==
    \/ DV_Call
    \/ DlSteps

(***************************************************************************)
(* gui/main_window.py: MainWindow and DownloadThread.                      *)
(***************************************************************************)
\* browse_json_file: the user picks a file, whose path is kept
Gui_Browse ==
    /\ ~gui.closed
    /\ gui' = [gui EXCEPT !.json_file_path = TRUE, !.parse_btn = TRUE]
    /\ UNCHANGED <<kf, dl, env>>

\* parse_json, which reads the selected file; a file that parses (otherwise
\* parse_json returns at line 393 or 450 and changes nothing)
Gui_ParseJson ==
    /\ ~gui.closed
    /\ gui.parse_btn
    /\ gui.json_file_path
    /\ \E file \in ParsedFiles :
          gui' = [gui EXCEPT
                    !.ref_edit = file.ref_edit,
                    !.mpd_edit = file.mpd_edit,
                    !.quality_items =
                        <<QualityAuto>> \o (IF file.qualities # << >>
                                            THEN file.qualities
                                            ELSE DefaultQualities),
                    !.quality_index = 1,
                    !.keys_btn = TRUE, !.download_btn = TRUE]
    /\ UNCHANGED <<kf, dl, env>>

\* the user picks an entry of the quality list: the first, the second or
\* the last
Gui_SelectQuality ==
    /\ ~gui.closed
    /\ \E i \in {1, 2, Len(gui.quality_items)} :
          /\ i # gui.quality_index
          /\ gui' = [gui EXCEPT !.quality_index = i]
    /\ UNCHANGED <<kf, dl, env>>

\* the user ticks or unticks "keep temporary files"
Gui_ToggleKeepTemp ==
    /\ ~gui.closed
    /\ gui' = [gui EXCEPT !.keep_temp = ~@]
    /\ UNCHANGED <<kf, dl, env>>

\* get_keys (lines 483-535): runs KeyFetcher.get_keys on the window's thread
Gui_GetKeys ==
    /\ ~gui.closed
    /\ gui.keys_btn
    /\ gui.mpd_edit # "" /\ gui.ref_edit # ""
    /\ \E keys \in GuiKeyResults :
          gui' = [gui EXCEPT !.drm_keys = KeysOf(keys),
                             !.keys_btn = TRUE, !.download_btn = TRUE]
    /\ UNCHANGED <<kf, dl, env>>

\* download_video (lines 547-593): a new VideoDownloader and a new
\* DownloadThread, which is started
Gui_Download ==
    /\ ~gui.closed
    /\ gui.download_btn
    /\ gui.mpd_edit # "" /\ gui.ref_edit # ""
    /\ gui.started < MaxDownloads
    /\ LET j == gui.started + 1
       IN  /\ gui' = [gui EXCEPT !.keys_btn = FALSE, !.download_btn = FALSE,
                                 !.parse_btn = FALSE, !.download_thread = j,
                                 !.started = j]
           /\ dl' = [dl EXCEPT ![j] =
                        [DlIdle EXCEPT
                           !.thread = "started",
                           !.th_mpd_url = gui.mpd_edit,
                           !.th_referrer = gui.ref_edit,
                           !.th_quality = gui.quality_items[gui.quality_index],
                           !.th_drm_keys = gui.drm_keys]]
    /\ UNCHANGED <<kf, env>>

\* DownloadThread.run, lines 62-71: up to the call of download_video, which
\* gets the four arguments of lines 67-70
DT_Run(j) ==
    /\ dl[j].thread = "started"
    /\ dl' = [dl EXCEPT ![j] =
                 [@ EXCEPT !.thread = "running",
                           !.attr_drm_keys = IF KeysTruthy(dl[j].th_drm_keys)
                                             THEN dl[j].th_drm_keys ELSE @,
                           !.pc = "check",
                           !.mpd_url = dl[j].th_mpd_url,
                           !.referrer = dl[j].th_referrer,
                           !.quality = dl[j].th_quality,
                           !.drm_keys = KeysNone,
                           !.output_filename = None]]
    /\ UNCHANGED <<kf, gui, env>>

\* DownloadThread.run, line 73: finished_signal.emit(success)
DT_Emit(j) ==
    /\ dl[j].thread = "running"
    /\ dl[j].pc = "done"
    /\ dl' = [dl EXCEPT ![j] = [@ EXCEPT !.thread = "emitted"]]
    /\ UNCHANGED <<kf, gui, env>>

\* finish_download (lines 619-634), the slot of finished_signal, with
\* unlock_buttons and cleanup_temp_files
Gui_FinishDownload(j) ==
    /\ ~gui.closed
    /\ dl[j].thread = "emitted"
    /\ gui' = [gui EXCEPT !.keys_btn = TRUE, !.download_btn = TRUE,
                          !.parse_btn = TRUE]
    /\ env' = IF gui.keep_temp THEN env ELSE [env EXCEPT !.temp = "empty"]
    /\ dl' = [dl EXCEPT ![j] = DlIdle]
    /\ UNCHANGED kf

\* closeEvent (lines 716-750) with the answer Yes; with the answer No the
\* event is ignored and nothing changes.  While the download thread is
\* running (lines 719-734) the thread is terminated and waited for, and the
\* close is accepted; nothing here reaches the process that run_command
\* started.  Otherwise (lines 736-748) the temp directory is cleaned unless
\* it is to be kept.
Gui_Close ==
    /\ ~gui.closed
    /\ LET j == gui.download_thread
           isRunning == j # 0 /\ dl[j].thread \in {"started", "running"}
       IN  IF isRunning
           THEN /\ dl' = [dl EXCEPT ![j].thread = "terminated"]
                /\ env' = env
           ELSE /\ dl' = dl
                /\ env' = IF gui.keep_temp THEN env
                          ELSE [env EXCEPT !.temp = "empty"]
    /\ gui' = [gui EXCEPT !.closed = TRUE]
    /\ UNCHANGED kf

\* clear_all (lines 654-681)
Gui_ClearAll ==
    /\ ~gui.closed
    /\ gui' = [gui EXCEPT !.json_file_path = FALSE,
                          !.ref_edit = "", !.mpd_edit = "",
                          !.quality_index = 1, !.keep_temp = FALSE,
                          !.parse_btn = FALSE, !.keys_btn = FALSE,
                          !.download_btn = FALSE, !.drm_keys = KeysNone]
    /\ UNCHANGED <<kf, dl, env>>

Next ==
    \/ Gui_Browse
    \/ Gui_ParseJson
    \/ Gui_SelectQuality
    \/ Gui_ToggleKeepTemp
    \/ Gui_GetKeys
    \/ Gui_Download
    \/ \E j \in Jobs : DT_Run(j)
    \/ DlSteps
    \/ \E j \in Jobs : DT_Emit(j)
    \/ \E j \in Jobs : Gui_FinishDownload(j)
    \/ Gui_ClearAll
    \/ Gui_Close

KfNext ==
    \/ KF_Call
    \/ KF_FetchMpd
    \/ KF_ExtractKid
    \/ KF_LocateLicenseUrl
    \/ KF_CreateRequest
    \/ KF_SendLicenseRequest
    \/ KF_ParseResponse
    \/ KF_TryAlternative

Spec == Init /\ [][Next]_vars

SpecKeys == Init /\ [][KfNext]_vars

SpecDownloader == Init /\ [][DownloaderNext]_vars

\* download_video called twice with the same arguments
ArgsNext ==
    \/ DV_Call
    \/ DlSteps
    \/ DV_CallAgain

SpecArgs == Init /\ [][ArgsNext]_vars

\* direct calls of run_command, with the child process and the operating
\* system's scheduler: the child and the thread inside run_command each
\* get to run when they can
ChildSteps == \E j \in Jobs : Child_Write(j) \/ Child_Exit(j)

SupervisorSteps ==
    \E j \in Jobs : RC_PopenPipes(j) \/ RC_ReadLine(j) \/ RC_Communicate(j)

PipesNext == RC_Call \/ ChildSteps \/ SupervisorSteps

SpecPipes ==
    Init /\ [][PipesNext]_vars /\ WF_vars(ChildSteps) /\ WF_vars(SupervisorSteps)

\* direct calls of parse_clearkey_response
CodecNext == PCR_Call \/ KF_ParseResponse

SpecCodec == Init /\ [][CodecNext]_vars

(***************************************************************************)
(* Properties.                                                             *)
(***************************************************************************)
\* the values that follow "--key" in an argument vector, in order
KeyArgumentsOf(args) ==
    LET at == {i \in 1..Len(args) : args[i] = "--key"}
        nth(n) == CHOOSE p \in at : Cardinality({q \in at : q <= p}) = n
    IN  [n \in 1..Cardinality(at) |->
            IF nth(n) < Len(args) THEN args[nth(n) + 1] ELSE None]

\* a job whose external downloader has been started
Launched(j) == dl[j].launch_at > 0

\* C1: through the window, a download started while MainWindow.drm_keys
\* holds a non-empty key list launches the external downloader with one
\* --key argument per stored key, in order.
C1_StoredKeysReachTheDownloader ==
    \A j \in Jobs :
        (dl[j].thread # "none" /\ KeysTruthy(dl[j].th_drm_keys) /\ Launched(j))
            => KeyArgumentsOf(dl[j].args) = dl[j].th_drm_keys.list

\* the case of C1: keys were acquired and the tool runs for that download
C1_LaunchedWithStoredKeys ==
    \E j \in Jobs :
        /\ dl[j].thread = "running" /\ Launched(j)
        /\ KeysTruthy(dl[j].th_drm_keys)
        /\ gui.drm_keys = dl[j].th_drm_keys

\* C2: a download_video call with n >= 1 keys that passed pre-flight hands
\* run_command a vector with exactly n "--key", the i-th followed by the
\* i-th key of the list.
C2_OneKeyArgumentPerKeyInOrder ==
    \A j \in Jobs :
        (dl[j].args # << >> /\ KeysTruthy(dl[j].drm_keys))
            => KeyArgumentsOf(dl[j].args) = dl[j].drm_keys.list

C2_TwoDistinctKeysPassed ==
    \E j \in Jobs :
        /\ dl[j].pc = "running"
        /\ Len(dl[j].drm_keys.list) = 2
        /\ dl[j].drm_keys.list[1] # dl[j].drm_keys.list[2]

\* C3: when the external downloader is launched with no --key argument, a
\* warning that no keys were passed has been logged before the launch; the
\* download is launched all the same.
C3_WarningBeforeLaunchWithoutKeys ==
    \A j \in Jobs :
        (Launched(j) /\ KeyArgumentsOf(dl[j].args) = << >>)
            => \E i \in 1..(dl[j].launch_at - 1) :
                  /\ dl[j].log[i].level = "warning"
                  /\ dl[j].log[i].msg = "WARNING: no DRM keys were passed"

C3_LaunchedWithoutKeys ==
    \E j \in Jobs :
        /\ Launched(j) /\ dl[j].pc = "running"
        /\ ~KeysTruthy(dl[j].drm_keys)
        /\ KeyArgumentsOf(dl[j].args) = << >>

\* C4: exit code 0 with the expected output file absent makes
\* download_video return False.
C4_ExitZeroWithoutFileFails ==
    \A j \in Jobs :
        (/\ dl[j].pc = "done" /\ dl[j].return_code = 0
         /\ env.files[dl[j].filename] = "absent")
            => dl[j].result = FALSE

C4_ExitZeroFileAbsent ==
    \E j \in Jobs :
        /\ dl[j].pc = "done" /\ dl[j].return_code = 0 /\ Launched(j)
        /\ env.files[dl[j].filename] = "absent"

\* C5: download_video returns True only if the exit code is 0 and the
\* expected output file exists and is not empty.
C5_SuccessNeedsNonEmptyFile ==
    \A j \in Jobs :
        (dl[j].pc = "done" /\ dl[j].result)
            => /\ dl[j].return_code = 0
               /\ env.files[dl[j].filename] = "data"

\* the case of C5: exit code 0 and a zero-byte output file
C5_ExitZeroEmptyFile ==
    \E j \in Jobs :
        /\ dl[j].pc = "done" /\ dl[j].return_code = 0
        /\ env.files[dl[j].filename] = "empty"

\* C6: without the downloader binary download_video returns False and no
\* external process is launched in the call.
C6_MissingDownloaderNeverLaunches ==
    ~env.n_m3u8dl_re =>
        \A j \in Jobs :
            /\ dl[j].pc \in {"idle", "check", "done"}
            /\ ~Launched(j)
            /\ dl[j].args = << >>
            /\ dl[j].result = FALSE

C6_FailedForMissingDownloader ==
    \E j \in Jobs :
        /\ ~env.n_m3u8dl_re /\ env.ffmpeg
        /\ dl[j].pc = "done" /\ dl[j].result = FALSE

\* C7: with the downloader binary present and ffmpeg missing, pre-flight
\* only warns: download_video goes on to launch the downloader, without
\* --ffmpeg-binary-path.
C7_MissingFfmpegStillLaunches ==
    \A j \in Jobs :
        (env.n_m3u8dl_re /\ ~env.ffmpeg /\ dl[j].pc = "done")
            => /\ dl[j].args # << >>
               /\ \A i \in 1..Len(dl[j].args) :
                     dl[j].args[i] # "--ffmpeg-binary-path"

\* the case of C7: the call ended and only ffmpeg is missing
C7_EndedWithoutFfmpeg ==
    \E j \in Jobs :
        env.n_m3u8dl_re /\ ~env.ffmpeg /\ dl[j].pc = "done"

\* the call built its license request
RequestBuilt == kf.request_data # NoRequest

\* C8: whatever KID text reaches create_clearkey_request, the request has
\* type "temporary" and exactly one kid; with no KID (None or empty text)
\* that kid is the unpadded base64url text of 16 zero bytes.
C8_RequestHasOneKid ==
    RequestBuilt =>
        /\ kf.request_data.type = "temporary"
        /\ Len(kf.request_data.kids) = 1
        /\ ~Truthy(kf.kid_base64)
              => kf.request_data.kids = <<"AAAAAAAAAAAAAAAAAAAAAA">>

C8_RequestBuiltWithoutKid ==
    RequestBuilt /\ kf.kid_base64 = ""

\* the 16 bytes a resolved KID text stands for, read with or without its
\* trailing "="
ResolvedKid(kid_base64) ==
    LET text == RStripPad(kid_base64)
        d == b64decode(text \o "==")
    IN  [is16 |-> /\ kid_base64 # None
                  /\ Len(text) = 22
                  /\ \A i \in 1..Len(text) : IndexIn(Char(text, i), B64Std) > 0
                  /\ d.ok /\ Len(d.bytes) = 16,
         bytes |-> d.bytes]

\* C9: when the resolver returned the base64 text of a 16-byte KID, padded
\* or not, the request's kid is the unpadded base64url text of those bytes.
C9_ResolvedKidIsSent ==
    (RequestBuilt /\ ResolvedKid(kf.kid_base64).is16)
        => kf.request_data.kids =
              <<RStripPad(urlsafe_b64encode(ResolvedKid(kf.kid_base64).bytes))>>

\* the case of C9: a KID that the manifest holds without padding
C9_UnpaddedKidResolved ==
    /\ RequestBuilt
    /\ ResolvedKid(kf.kid_base64).is16
    /\ kf.kid_base64 = RStripPad(kf.kid_base64)

\* C10: every string get_keys returns is KID:KEY with 32 lowercase hex
\* characters on either side.
C10_ReturnedKeysAreWellFormed ==
    LET IsKeyString(s) ==
            /\ Len(s) = 65
            /\ Char(s, 33) = ":"
            /\ \A i \in (1..32) \cup (34..65) :
                  IndexIn(Char(s, i), HexLower) > 0
    IN  kf.pc = "done" => \A i \in 1..Len(kf.keys) : IsKeyString(kf.keys[i])

\* the case of C10: a license entry whose k decodes to 3 bytes
C10_ShortKeyReturned ==
    /\ kf.pc = "done"
    /\ \E i \in 1..Len(kf.keys) : Len(kf.keys[i]) < 65

\* C11: for every pair of 16-byte values (kid, k), the response
\* {"keys":[{"kty":"oct","k":b64(k),"kid":b64(kid)}]} with unpadded base64
\* fields parses to exactly one string, 32 lowercase hex characters, ":",
\* 32 lowercase hex characters, and hex-decoding the sides gives back kid
\* and k.
C11_OneKeyRoundTrip ==
    LET Digit(text, i) == IndexIn(Char(text, i), HexLower) - 1
        FromHex(text) ==
            [i \in 1..(Len(text) \div 2) |->
                Digit(text, 2 * i - 1) * 16 + Digit(text, 2 * i)]
    IN  kf.stages = <<"parse">> =>
            \A kid, k \in KeyBytes :
                kf.post.body = OneKeyBody(kid, k) =>
                    /\ ~kf.raised
                    /\ Len(kf.keys) = 1
                    /\ Len(kf.keys[1]) = 65
                    /\ Char(kf.keys[1], 33) = ":"
                    /\ \A i \in (1..32) \cup (34..65) :
                          IndexIn(Char(kf.keys[1], i), HexLower) > 0
                    /\ FromHex(SubSeq(kf.keys[1], 1, 32)) = kid
                    /\ FromHex(SubSeq(kf.keys[1], 34, 65)) = k

\* the case of C11: a pair whose base64 texts hold "+" and "/"
C11_PlusAndSlashParsed ==
    LET entry == Field(kf.post.body.value, "keys").items[1]
    IN  /\ kf.stages = <<"parse">>
        /\ Contains(Field(entry, "kid").s, "+")
        /\ Contains(Field(entry, "k").s, "/")
        /\ Len(kf.keys) = 1

\* C12: parse_clearkey_response never raises: for every body (text that is
\* not JSON, text with characters outside Latin-1, JSON whose top level is
\* not an object, a keys array with entries that are not objects) it
\* returns a list.
C12_ParserNeverRaises ==
    (kf.stages # << >> /\ kf.stages[Len(kf.stages)] = "parse") => ~kf.raised

\* the case of C12: the parser was given text that is not JSON and holds a
\* character outside Latin-1 among its first 16
C12_ParsedNonLatin1Text ==
    /\ kf.stages # << >> /\ kf.stages[Len(kf.stages)] = "parse"
    /\ kf.post.body.kind = "text"
    /\ Len(kf.post.body.text) >= 16
    /\ \E i \in 1..16 : Ord(Char(kf.post.body.text, i)) > 255

\* C13: each entry of the keys array is handled on its own: an entry
\* without k or kid, one that is not an object, or one that fails to decode
\* is skipped, and every well-formed entry, before or after it, is still
\* emitted.
C13_WellFormedEntriesEmitted ==
    LET body == kf.post.body
        Is16(v) == /\ v.t = "str"
                   /\ Len(v.s) = 22
                   /\ b64decode(v.s \o "==").ok
                   /\ Len(b64decode(v.s \o "==").bytes) = 16
        WellFormed(e) == /\ HasField(e, "k") /\ HasField(e, "kid")
                         /\ Is16(Field(e, "k")) /\ Is16(Field(e, "kid"))
        KeyOf(e) == hex(b64decode(Field(e, "kid").s \o "==").bytes) \o ":"
                    \o hex(b64decode(Field(e, "k").s \o "==").bytes)
    IN  (/\ kf.stages # << >> /\ kf.stages[Len(kf.stages)] = "parse"
         /\ body.kind = "json"
         /\ HasField(body.value, "keys")
         /\ Field(body.value, "keys").t = "list")
        => \A i \in 1..Len(Field(body.value, "keys").items) :
              WellFormed(Field(body.value, "keys").items[i])
                  => InSeq(KeyOf(Field(body.value, "keys").items[i]), kf.keys)

\* the case of C13: the parser has returned for a keys array whose first
\* entry is not an object and whose second entry is a 16-byte pair
C13_NonObjectBeforeKey ==
    LET body == kf.post.body
        items == Field(body.value, "keys").items
    IN  /\ kf.stages # << >> /\ kf.stages[Len(kf.stages)] = "parse"
        /\ body.kind = "json"
        /\ HasField(body.value, "keys")
        /\ Field(body.value, "keys").t = "list"
        /\ Len(items) = 2
        /\ items[1].t # "obj"
        /\ HasField(items[2], "k") /\ HasField(items[2], "kid")
        /\ Field(items[2], "k") = JStr("AQIDBAUGBwgJCgsMDQ4PEA")
        /\ Field(items[2], "kid") = JStr("nrQFDeRLSAKTLifXUIPiZg")

\* C14: the list get_keys returns never holds two entries with the same
\* KID (the text before ":"), on the primary path (a kid repeated in the
\* keys array) and on the fallback paths (several candidates, all paired
\* with the placeholder KID); the entries keep the order of the response.
\* The formula is the first half, which the second half does not affect.
C14_NoTwoEntriesWithOneKid ==
    LET KidOf(key) == SubSeq(key, 1, Find(key, ":") - 1)
    IN  kf.pc = "done" =>
            \A i, j \in 1..Len(kf.keys) :
                i < j => KidOf(kf.keys[i]) # KidOf(kf.keys[j])

\* the case of C14: get_keys has returned for a keys array that holds the
\* same 16-byte pair twice
C14_KidRepeatedInResponse ==
    LET body == kf.post.body
        items == Field(body.value, "keys").items
    IN  /\ kf.pc = "done"
        /\ kf.stages # << >> /\ kf.stages[Len(kf.stages)] = "parse"
        /\ body.kind = "json"
        /\ HasField(body.value, "keys")
        /\ Field(body.value, "keys").t = "list"
        /\ Len(items) = 2
        /\ items[1] = KeyEntry("AQIDBAUGBwgJCgsMDQ4PEA", "nrQFDeRLSAKTLifXUIPiZg")
        /\ items[2] = items[1]
        /\ Len(kf.keys) = 2

\* C15: when the license response is plain text, not JSON, that holds a
\* 32-character hex substring, the list the decode stage of get_keys
\* yields (parse_clearkey_response, then try_alternative_methods if that
\* list is empty) holds the placeholder KID of 32 zeros, ":", and the token.
C15_HexTokenOfPlainTextReturned ==
    LET text == kf.post.body.text
        HexAt(i) == \A n \in i..(i + 31) :
                        IndexIn(Char(text, n), HexAny) > 0
        Placeholder == "00000000000000000000000000000000"
    IN  (/\ kf.pc = "done"
         /\ kf.stages # << >>
         /\ kf.stages[Len(kf.stages)] \in {"parse", "alternative"}
         /\ kf.post.body.kind = "text"
         /\ \E i \in 1..(Len(text) - 31) : HexAt(i))
        => \E i \in 1..(Len(text) - 31) :
              /\ HexAt(i)
              /\ InSeq(Placeholder \o ":" \o SubSeq(text, i, i + 31), kf.keys)

\* the case of C15: the decode stage has ended for the text
\* key=00112233445566778899aabbccddeeff
C15_PlainTextWithHexDecoded ==
    /\ kf.pc = "done"
    /\ kf.stages # << >>
    /\ kf.stages[Len(kf.stages)] \in {"parse", "alternative"}
    /\ kf.post.body = TextBody("key=00112233445566778899aabbccddeeff")
    /\ kf.keys # << >>

\* C16: resolver precedence: for a manifest that holds a ContentProtection
\* element of the ClearKey scheme with a default_KID child and, anywhere
\* else (earlier in document order included), another default_KID element
\* with a different value, extract_kid_from_mpd returns the ClearKey-scoped
\* value; the value of a later strategy is returned only when every
\* earlier strategy found nothing.
C16_ClearKeyScopedKidWins ==
    LET mpd == kf.fetch.mpd
        desc == Descendants(mpd.root)
        all == <<mpd.root>> \o desc
        KidTextsOf(children) ==
            {Strip(children[n].text) :
                n \in {m \in 1..Len(children) :
                          /\ children[m].tag = TagDefaultKid
                          /\ Truthy(children[m].text)}}
        IsScoped(e) == /\ e.tag = TagContentProtection
                       /\ e.schemeIdUri = ClearKeyScheme
        scoped == UNION {KidTextsOf(desc[n].children) :
                            n \in {m \in 1..Len(desc) : IsScoped(desc[m])}}
        loose == KidTextsOf(desc)
        attrs == {all[n].default_KID :
                     n \in {m \in 1..Len(all) : all[m].default_KID # None}}
    IN  (kf.pc = "locate" /\ mpd.wellformed) =>
            /\ scoped # {} => kf.kid_base64 \in scoped
            /\ (scoped = {} /\ loose # {}) => kf.kid_base64 \in loose
            /\ (scoped = {} /\ loose = {} /\ attrs # {})
                  => kf.kid_base64 \in attrs
            /\ (scoped = {} /\ loose = {} /\ attrs = {})
                  => kf.kid_base64 = None

\* the case of C16: the resolver has returned for a manifest whose first
\* element is a loose default_KID and whose ClearKey ContentProtection
\* holds another value
C16_LooseKidBeforeScopedKid ==
    /\ kf.pc = "locate"
    /\ kf.fetch.mpd =
          Mpd(<<Leaf(TagDefaultKid, "AAAAAAAAAAAAAAAAAAAAAA=="),
                Elem(TagContentProtection, ClearKeyScheme, None, None,
                     <<Leaf(TagDefaultKid, "nrQFDeRLSAKTLifXUIPiZg==")>>)>>)
    /\ kf.kid_base64 = "nrQFDeRLSAKTLifXUIPiZg=="

\* C17: when the structured strategies resolve no KID (no matching element
\* or attribute, or a manifest that is not well-formed XML) but the raw
\* text of the manifest holds a default_KID-like token followed by a
\* base64-like value of 20 characters or more, the resolver returns that
\* value and not None.
C17_KidTokenInRawTextIsReturned ==
    LET mpd == kf.fetch.mpd
        all == <<mpd.root>> \o Descendants(mpd.root)
        Base64Like(v) == /\ v # None
                         /\ Len(v) >= 20
                         /\ \A i \in 1..Len(v) :
                               IndexIn(Char(v, i), B64PadClass) > 0
        tokens == {all[n].text :
                      n \in {m \in 1..Len(all) :
                                /\ Contains(all[m].tag, "default_KID")
                                /\ Base64Like(all[m].text)}}
                  \cup {all[n].default_KID :
                           n \in {m \in 1..Len(all) :
                                     Base64Like(all[m].default_KID)}}
        structured ==
            /\ mpd.wellformed
            /\ \E n \in 1..Len(all) :
                  \/ all[n].tag = TagDefaultKid /\ Truthy(all[n].text)
                  \/ all[n].default_KID # None
    IN  (/\ kf.pc = "locate"
         /\ kf.stages[Len(kf.stages)] = "extract"
         /\ ~structured
         /\ tokens # {})
        => kf.kid_base64 \in tokens

\* the case of C17: the resolver has returned for a text that is not
\* well-formed XML and holds default_KID="nrQFDeRLSAKTLifXUIPiZg=="
C17_BrokenManifestWithKidToken ==
    /\ kf.pc = "locate"
    /\ kf.stages[Len(kf.stages)] = "extract"
    /\ kf.fetch.mpd = BrokenMpdWithKid

\* C18: find_license_url_from_json probes three shapes of the document in
\* the order options.playlist[0].drm.clearkey.licenseUrl,
\* rawOptions.playlist[0].drm.clearkey.licenseUrl, state.driver.drmInfo (key
\* system org.w3.clearkey and a videoId, from which a URL is made) and
\* returns what the first shape with a non-empty URL yields; it returns
\* None only if all three yield nothing.  The formula reads the result
\* where get_keys stores it: a URL from the document's options comes
\* first, then one from rawOptions, and a document with drmInfo only gives
\* a URL that holds its videoId.
C18_FirstNonEmptyShapeWins ==
    LET data == kf.sidecar.data
        Get(v, name) == IF HasField(v, name) THEN Field(v, name) ELSE JNull
        First(v) == IF v.t = "list" /\ Len(v.items) > 0 THEN v.items[1]
                    ELSE JNull
        Text(v) == IF v.t = "str" THEN v.s ELSE ""
        UrlUnder(name) ==
            Text(Get(Get(Get(First(Get(Get(data, name), "playlist")),
                             "drm"), "clearkey"), "licenseUrl"))
        drmInfo == Get(Get(Get(data, "state"), "driver"), "drmInfo")
    IN  (/\ kf.pc = "create"
         /\ kf.sidecar.readable
         /\ \/ HasField(data, "state")
            \/ UrlUnder("options") # ""
            \/ UrlUnder("rawOptions") # "")
        => IF UrlUnder("options") # ""
           THEN Split(kf.license_url, "token=")[1]
                   = Split(UrlUnder("options"), "token=")[1]
           ELSE IF UrlUnder("rawOptions") # ""
           THEN kf.license_url = UrlUnder("rawOptions")
           ELSE /\ Text(Get(drmInfo, "keySystem")) = "org.w3.clearkey"
                /\ Text(Get(drmInfo, "videoId")) # ""
                /\ Contains(kf.license_url, Text(Get(drmInfo, "videoId")))

\* the case of C18: the license URL has been looked up in a document that
\* has state.driver.drmInfo and neither options nor rawOptions
C18_DocumentWithDrmInfoOnly ==
    /\ kf.pc = "create"
    /\ kf.sidecar.readable
    /\ HasField(kf.sidecar.data, "state")
    /\ ~HasField(kf.sidecar.data, "options")
    /\ ~HasField(kf.sidecar.data, "rawOptions")

\* C19: after an exit code other than zero download_video returns failure,
\* and the category it logs is found by a search of the captured output
\* that ignores case, in this order: "key" or "decrypt" gives the key
\* category; else "connection" the network category; else "xml" the
\* manifest category; else none.  The category never changes the result.
C19_FailureCategoryByPrecedence ==
    LET SameLetter(c, d) ==
            \/ c = d
            \/ /\ IndexIn(c, UpperAlpha) > 0
               /\ IndexIn(c, UpperAlpha) = IndexIn(d, LowerAlpha)
        Has(out, word) ==
            \E i \in 1..(Len(out) - Len(word) + 1) :
                \A n \in 1..Len(word) :
                    SameLetter(Char(out, i + n - 1), Char(word, n))
        KeyCategory == Msg("possibly a problem with the DRM keys", "warning")
        NetworkCategory == Msg("connection problem", "warning")
        ManifestCategory == Msg("problem with the MPD file", "warning")
        IsCategory(m) == m \in {KeyCategory, NetworkCategory, ManifestCategory}
        Expected(out) ==
            IF Has(out, "key") \/ Has(out, "decrypt") THEN <<KeyCategory>>
            ELSE IF Has(out, "connection") THEN <<NetworkCategory>>
            ELSE IF Has(out, "xml") THEN <<ManifestCategory>>
            ELSE << >>
    IN  \A j \in Jobs :
            (dl[j].pc = "done" /\ dl[j].return_code > 0) =>
                /\ ~dl[j].result
                /\ SelectSeq(dl[j].log, IsCategory) = Expected(dl[j].output)

\* the case of C19: a run that exited with a code other than zero and
\* printed both "connection" and "key", the latter in capitals
C19_FailedWithTwoKeywords ==
    \E j \in Jobs :
        /\ dl[j].pc = "done"
        /\ dl[j].return_code > 0
        /\ dl[j].output = "Connection lost while fetching KEY"

\* C20: argument construction is deterministic: two download_video calls
\* with the same manifest URL, referrer, quality, key list and output file
\* name, under the same configuration, build the same argument vector;
\* when no file name is passed, the two vectors differ at most in the value
\* that follows --save-name.
C20_SameInputsSameArguments ==
    \A j \in Jobs :
        LET a == dl[j].first_args
            b == dl[j].args
        IN  (a # << >> /\ b # << >>) =>
                /\ Len(a) = Len(b)
                /\ \A i \in 1..Len(a) :
                      a[i] # b[i] =>
                          /\ ~Truthy(dl[j].output_filename)
                          /\ i > 1
                          /\ a[i - 1] = "--save-name"
                          /\ b[i - 1] = "--save-name"

\* the case of C20: the second of two calls without a file name has built
\* its vector, at another second of the clock than the first
C20_SecondCallAtAnotherSecond ==
    \E j \in Jobs :
        /\ dl[j].first_args # << >>
        /\ dl[j].args # << >>
        /\ dl[j].output_filename = None
        /\ dl[j].first_args # dl[j].args

\* C21: any two download attempts that pass no output file name get
\* different generated names, two attempts within one second of the clock
\* included.
C21_GeneratedNamesAreDistinct ==
    \A j \in Jobs :
        (/\ dl[j].first_args # << >>
         /\ dl[j].args # << >>
         /\ dl[j].output_filename = None)
        => dl[j].args[4] # dl[j].first_args[4]

\* the case of C21: the first attempt ended without starting the process,
\* and the second attempt made its name at the same clock reading
C21_SecondAttemptInTheSameSecond ==
    \E j \in Jobs :
        /\ dl[j].first_args # << >>
        /\ dl[j].args # << >>
        /\ dl[j].output_filename = None
        /\ dl[j].not_before > 0
        /\ dl[j].first_args[4] = OutputFilename(None, Clock[dl[j].not_before])
        /\ dl[j].filename = OutputFilename(None, Clock[dl[j].not_before])

\* C22: run_command never blocks for ever on a read: once the child has
\* exited, or would exit if its pipes were drained, run_command returns in
\* the end; this includes a child that writes to stderr only, with pipes
\* of bounded size, while run_command reads stdout.
C22_RunCommandReturns ==
    \A j \in Jobs : (dl[j].pc = "rc_read") ~> (dl[j].pc = "rc_returned")

\* the case of C22: the child waits for room in its stderr pipe while
\* run_command waits for a line of stdout
C22_ChildBlockedOnStderr ==
    \E j \in Jobs :
        /\ dl[j].pc = "rc_read"
        /\ dl[j].rc.child = "alive"
        /\ dl[j].rc.stdout_pipe = << >>
        /\ dl[j].rc.script # << >>
        /\ Head(dl[j].rc.script).stream = "err"
        /\ Len(dl[j].rc.stderr_pipe) = PipeCap

\* C23: every line that is not blank, of stdout or of stderr, is forwarded
\* to the log when it is produced, not held back until run_command has seen
\* the child exit: a line of the child that is in the log has every earlier
\* line of the child that is not blank in the log too.
C23_LinesForwardedAsProduced ==
    \A j \in Jobs :
        LET written == dl[j].rc.written
            Logged(line) ==
                \E n \in DOMAIN dl[j].log :
                    dl[j].log[n].msg = IF line.stream = "out"
                                       THEN Strip(line.text)
                                       ELSE "Error: " \o line.text
        IN  \A i, k \in DOMAIN written :
                (i < k /\ Strip(written[i].text) # "" /\ Logged(written[k]))
                    => Logged(written[i])

\* the case of C23: the child has written a line to stderr and then a line
\* to stdout, run_command has logged the line of stdout and has not seen
\* the child exit
C23_StdoutLoggedAfterStderrWritten ==
    \E j \in Jobs :
        /\ dl[j].pc = "rc_read"
        /\ Len(dl[j].rc.written) >= 2
        /\ dl[j].rc.written[1].stream = "err"
        /\ dl[j].rc.written[2].stream = "out"
        /\ \E n \in DOMAIN dl[j].log :
               dl[j].log[n].msg = dl[j].rc.written[2].text

\* C24: when the user confirms closing the window while the download
\* thread is running, the child process is terminated before the close is
\* accepted: the window is never closed with a child process running.
C24_NoChildRunsAfterClose ==
    gui.closed => \A j \in Jobs : dl[j].pc # "running"

\* the case of C24: the close was confirmed while the download thread was
\* inside run_command, and the thread was terminated
C24_ClosedDuringDownload ==
    /\ gui.closed
    /\ \E j \in Jobs : dl[j].thread = "terminated" /\ dl[j].pc = "running"

\* C25: while a DownloadThread is running the download button is disabled,
\* under every sequence of user actions.
C25_DownloadDisabledWhileRunning ==
    \A j \in Jobs :
        dl[j].thread \in {"started", "running"} => ~gui.download_btn

\* the case of C25: a file is parsed while the download thread is inside
\* run_command
C25_ParsedDuringDownload ==
    /\ ~gui.closed
    /\ gui.download_btn
    /\ \E j \in Jobs : dl[j].thread = "running" /\ dl[j].pc = "running"

\* C26: within one call of get_keys the stages run in the order manifest
\* fetch, KID resolution, license-URL location, request construction,
\* license POST, response decoding, each at most once; a stage follows the
\* manifest fetch only when the fetch returned content (so the POST does),
\* and the decoding runs only after a POST that returned a 200 response
\* with a body that is not empty.
C26_StagesInStrictOrder ==
    [][LET Order == <<"fetch", "extract", "locate", "create", "post", "parse">>
           before == SelectSeq(kf.stages, LAMBDA st : st # "alternative")
           after == SelectSeq(kf'.stages, LAMBDA st : st # "alternative")
       IN  /\ Len(after) <= Len(Order)
           /\ after = SubSeq(Order, 1, Len(after))
           /\ Len(after) \in {Len(before), Len(before) + 1}
           /\ (before = <<"fetch">> /\ after # before)
                 => (kf.fetch.ok /\ ~kf.fetch.empty)
           /\ (before # after /\ after[Len(after)] = "parse")
                 => (kf.post.ok /\ kf.post.body.text # "")]_vars

\* the case of C26: a call of get_keys that went through all six stages
C26_AllStagesRun ==
    /\ Len(kf.stages) >= 6
    /\ kf.stages[1] = "fetch"
    /\ kf.stages[5] = "post"
    /\ kf.stages[6] = "parse"

\* C27: the handling of token= is one choice: the licenseUrl text found in
\* the document, under options or under rawOptions, is the URL that is
\* returned, with an empty token= at its end and with any text after
\* token= left as it is.  The formula reads the result where get_keys
\* stores it.
C27_LicenseUrlReturnedUnchanged ==
    LET data == kf.sidecar.data
        Get(v, name) == IF HasField(v, name) THEN Field(v, name) ELSE JNull
        First(v) == IF v.t = "list" /\ Len(v.items) > 0 THEN v.items[1]
                    ELSE JNull
        Text(v) == IF v.t = "str" THEN v.s ELSE ""
        UrlUnder(name) ==
            Text(Get(Get(Get(First(Get(Get(data, name), "playlist")),
                             "drm"), "clearkey"), "licenseUrl"))
    IN  (kf.pc = "create" /\ kf.sidecar.readable)
        => /\ UrlUnder("options") # ""
               => kf.license_url = UrlUnder("options")
           /\ (UrlUnder("options") = "" /\ UrlUnder("rawOptions") # "")
               => kf.license_url = UrlUnder("rawOptions")

\* the case of C27: the license URL has been looked up in a document whose
\* options hold a licenseUrl with text after token=
C27_TokenTextUnderOptions ==
    /\ kf.pc = "create"
    /\ kf.sidecar.readable
    /\ HasField(kf.sidecar.data, "options")
    /\ Contains(kf.license_url, "token=")
    /\ \E u \in LicenseUrls :
           /\ kf.sidecar.data
                = JObj(<< <<"options", JObj(<< <<"playlist", PlaylistWith(u)>> >>)>> >>)
           /\ Len(Split(u, "token=")) = 2
           /\ Split(u, "token=")[2] # ""

\* C28: the fallback extraction emits a key only for a candidate token of
\* the body (a base64-looking run of 20 characters or more, or a hex run of
\* 32) that decodes to 16 bytes: a response body with no candidate token,
\* such as plain text that is no JSON, yields no key.
C28_NoCandidateTokenNoKey ==
    (/\ kf.pc = "done"
     /\ kf.stages # << >>
     /\ kf.stages[Len(kf.stages)] \in {"parse", "alternative"}
     /\ FindAll(kf.post.body.text, B64PadClass, 20, Len(kf.post.body.text)) = << >>
     /\ FindAll(kf.post.body.text, HexAny, 32, 32) = << >>)
    => kf.keys = << >>

\* the case of C28: a body of plain text, 16 characters or more, with no
\* candidate token in it, has been parsed
C28_PlainTextWithoutToken ==
    /\ kf.pc = "done"
    /\ kf.stages # << >>
    /\ kf.stages[Len(kf.stages)] = "parse"
    /\ ~kf.raised
    /\ kf.post.body.kind = "text"
    /\ Len(kf.post.body.text) >= 16
    /\ FindAll(kf.post.body.text, B64PadClass, 20, Len(kf.post.body.text)) = << >>
    /\ FindAll(kf.post.body.text, HexAny, 32, 32) = << >>

\* C29: every argument vector that download_video builds holds exactly one
\* directive that selects the video: one --select-video with its quality=N,
\* or --auto-select, never both and never neither, for every quality label
\* the window can offer.
C29_ExactlyOneVideoDirective ==
    \A j \in Jobs :
        dl[j].args # << >>
        => LET args == dl[j].args
               select == {i \in DOMAIN args : args[i] = "--select-video"}
               auto == {i \in DOMAIN args : args[i] = "--auto-select"}
           IN  /\ Cardinality(select) + Cardinality(auto) = 1
               /\ \A i \in select :
                      /\ i < Len(args)
                      /\ Len(args[i + 1]) > 8
                      /\ SubSeq(args[i + 1], 1, 8) = "quality="

\* the case of C29: the arguments were built for a quality label that the
\* sidecar document can give and that is none of 1080p, 720p, 480p, 360p
C29_BuiltForLabelOfTheDocument ==
    \E j \in Jobs :
        /\ dl[j].args # << >>
        /\ dl[j].quality # QualityAuto
        /\ ~InSeq(dl[j].quality, DefaultQualities)
        /\ \E file \in JsonFiles : InSeq(dl[j].quality, file.qualities)

\* C30: the padding step used on k and kid: a text of length L with L mod 4
\* in {0, 2, 3} gets (4 - L mod 4) mod 4 characters "=", so that the padded
\* length is a multiple of 4; an entry whose k has L mod 4 = 1 is rejected
\* (not emitted), it is not padded and decoded to some value.
C30_LengthOneModFourRejected ==
    kf.stages = <<"parse">> =>
        LET k == Field(Field(kf.post.body.value, "keys").items[1], "k").s
            L == Len(k)
        IN  /\ (L % 4) \in {0, 2, 3} =>
                  /\ Len(PadB64(k)) = L + ((4 - (L % 4)) % 4)
                  /\ Len(PadB64(k)) % 4 = 0
            /\ (L % 4) = 1 => kf.keys = << >>

\* the case of C30: an entry whose k has a length of 1 mod 4 and a
\* character outside the base64 alphabet has been parsed
C30_FiveCharactersOneSkipped ==
    /\ kf.stages = <<"parse">>
    /\ LET k == Field(Field(kf.post.body.value, "keys").items[1], "k").s
       IN  /\ Len(k) % 4 = 1
           /\ \E i \in 1..Len(k) : IndexIn(Char(k, i), B64Std) = 0

====
